---- MODULE Spec2Model ----
(***************************************************************************)
(* PocketSmith transaction proxy: the cache repository (Redis), the        *)
(* cache-aside PocketSmith client and the transaction service.             *)
(*                                                                         *)
(* Every request is a process.  A process takes one step per command sent  *)
(* to a shared party (one Redis command, one HTTP call); the local code    *)
(* that follows the command up to the next one belongs to the same step.   *)
(***************************************************************************)
EXTENDS Integers, Sequences, FiniteSets, TLC

VARIABLES
    redis,      \* the Redis server: key -> entry (string value, hash fields, expiry)
    now,        \* the Redis server's clock, in ticks of half a cacheTTL
    remote,     \* the PocketSmith ledger: user id, accounts, categories
    pc,         \* per request: the next command of the request
    req,        \* per request: the HTTP request the handler received (NoReq: none)
    op,         \* per request: the operation of the service that is running
    tx,         \* per request: the domain.Transaction handed to AddTransaction
    user,       \* per request: local `user` of AddTransaction
    accounts,   \* per request: local `accounts`
    categories, \* per request: local `categories`
    fetched,    \* per request: the value the client decoded from the response
    call,       \* per request: account id and body of the create call to make
    ret,        \* per request: what AddTransaction returned
    statusCode, \* per request: the status the handler answered with (0: none yet)
    result,     \* per request: the value the service returned besides the error
    obs,        \* per request and read operation: what the operation did (history)
    posted,     \* per request: the create-transaction calls issued (history)
    prevAcc,    \* per process: the cache write of its previous accounts fetch (history)
    served,     \* number of requests started so far
    faults      \* number of failed commands and failed calls so far

vars == <<redis, now, remote, pc, req, op, tx, user, accounts, categories, fetched, call,
          ret, statusCode, result, obs, posted, prevAcc, served, faults>>

-----------------------------------------------------------------------------
(* Bounds *)

MaxRequests == 2     \* requests started in one behaviour
MaxTicks == 2        \* clock ticks in one behaviour
MaxFaults == 1       \* failed Redis commands and failed HTTP calls in one behaviour

(* Program constants *)

cacheTTL == 86400
StatusOK == 200
StatusCreated == 201
StatusBadRequest == 400
StatusForbidden == 403
StatusNotFound == 404
StatusMethodNotAllowed == 405
StatusUnprocessableEntity == 422
StatusInternalServerError == 500

Tick == cacheTTL \div 2

Procs == {"r1", "r2"}

-----------------------------------------------------------------------------
(* Domain values *)

UserIDs == {7, 12}

Acc(id, name, cur) == [ID |-> id, Name |-> name, CurrencyCode |-> cur]
Cat(id, title, parent) == [ID |-> id, Title |-> title, ParentID |-> parent]

A1 == Acc(1, "USD General", "USD")
A2 == Acc(2, "usd general", "EUR")

K1 == Cat(4, "Groceries", {})
K2 == Cat(5, "groceries", {4})
K3 == Cat(6, "Eating out", {4})
K4 == Cat(8, "Eating out", {})
A3 == Acc(3, "EUR General", "EUR")

AccountNames == {"USD General", "USD GENERAL", "EUR General"}
CategoryTitles == {"Groceries", "Eating out"}

\* strings.ToLower on the names the model uses
ToLower(s) ==
    CASE s = "USD General" -> "usd general"
      [] s = "USD GENERAL" -> "usd general"
      [] s = "EUR General" -> "eur general"
      [] s = "Groceries" -> "groceries"
      [] s = "Eating out" -> "eating out"
      [] OTHER -> s

-----------------------------------------------------------------------------
(* The list operations of the service: names, titles and sort.Strings *)

\* the place of a name in the byte order of Go strings, on the names the model uses
ByteOrder ==
    <<"", "EUR General", "Eating out", "Groceries", "USD GENERAL", "USD General",
      "groceries", "usd general">>

Rank(str) == CHOOSE i \in DOMAIN ByteOrder : ByteOrder[i] = str

\* insertion of str into the sorted sequence q
RECURSIVE Insert(_, _)
Insert(str, q) ==
    IF q = <<>> THEN <<str>>
    ELSE IF Rank(str) <= Rank(Head(q)) THEN <<str>> \o q
    ELSE <<Head(q)>> \o Insert(str, Tail(q))

\* variant: equal titles are kept once
RECURSIVE SortStringsUnique(_)
SortStringsUnique(q) ==
    IF q = <<>> THEN <<>>
    ELSE LET rest == SortStringsUnique(Tail(q))
         IN  IF \E i \in DOMAIN rest : rest[i] = Head(q) THEN rest ELSE Insert(Head(q), rest)

\* sort.Strings
RECURSIVE SortStrings(_)
SortStrings(q) == IF q = <<>> THEN <<>> ELSE Insert(Head(q), SortStrings(Tail(q)))

\* categoryNames: the titles in list order
Titles(list) == [i \in DOMAIN list |-> list[i].Title]

\* variant: the accounts come out in the reverse of the list order
AccountInfosReversed(list) ==
    [i \in DOMAIN list |-> [Name |-> list[Len(list) + 1 - i].Name,
                            Currency |-> list[Len(list) + 1 - i].CurrencyCode]]

\* accountInfos: name and currency of each account, in list order
AccountInfos(list) == [i \in DOMAIN list |-> [Name |-> list[i].Name, Currency |-> list[i].CurrencyCode]]

-----------------------------------------------------------------------------
(* strconv.Itoa / strconv.Atoi on the ids the model uses *)

Decimal == <<"1", "2", "3", "4", "5", "6", "7", "8", "9", "10", "11", "12">>

Itoa(n) == IF n = 0 THEN "0" ELSE Decimal[n]

Atoi(s) ==
    IF s = "0" THEN [err |-> FALSE, val |-> 0]
    ELSE IF \E n \in DOMAIN Decimal : Decimal[n] = s
         THEN [err |-> FALSE, val |-> CHOOSE n \in DOMAIN Decimal : Decimal[n] = s]
         ELSE [err |-> TRUE, val |-> 0]

-----------------------------------------------------------------------------
(* encoding/json on []domain.TransactionAccount and []domain.Category.     *)
(* A JSON text is the sequence of its tokens; an object is eight tokens:   *)
(* "{", three key/value pairs, "}".                                        *)

Malformed == <<"<html>">>

RECURSIVE Flatten(_)
Flatten(ss) == IF ss = <<>> THEN <<>> ELSE Head(ss) \o Flatten(Tail(ss))

MarshalAccountDropCurrency(a) ==
    <<"{", "id", Itoa(a.ID), "name", a.Name, "currency_code", "", "}">>

MarshalAccount(a) ==
    <<"{", "id", Itoa(a.ID), "name", a.Name, "currency_code", a.CurrencyCode, "}">>

\* variant: the parent of a category is not written
MarshalCategoryDropParent(c) ==
    <<"{", "id", Itoa(c.ID), "title", c.Title, "parent_id", "null", "}">>

MarshalCategory(c) ==
    <<"{", "id", Itoa(c.ID), "title", c.Title, "parent_id",
      IF c.ParentID = {} THEN "null" ELSE Itoa(CHOOSE x \in c.ParentID : TRUE), "}">>

MarshalAccounts(list) ==
    <<"[">> \o Flatten([i \in DOMAIN list |-> MarshalAccount(list[i])]) \o <<"]">>

MarshalCategories(list) ==
    <<"[">> \o Flatten([i \in DOMAIN list |-> MarshalCategory(list[i])]) \o <<"]">>

\* json.Marshal of domain.PocketSmithTransaction: category_id is left out when nil
MarshalTransaction(t) ==
    <<"{", "payee", t.Payee, "amount", t.Amount, "date", t.Date,
      "is_transfer", IF t.IsTransfer THEN "true" ELSE "false">>
    \o (IF t.CategoryID = {} THEN <<>>
        ELSE <<"category_id", Itoa(CHOOSE x \in t.CategoryID : TRUE)>>)
    \o <<"}">>

\* the value of the member named key of the object g, or def when g has no such member
Member(g, key, def) ==
    IF \E i \in {2, 4, 6} : g[i] = key
    THEN g[(CHOOSE i \in {2, 4, 6} : g[i] = key) + 1]
    ELSE def

\* the i-th object of the array text s
Object(s, i) == SubSeq(s, 2 + 8 * (i - 1), 1 + 8 * i)

IsArray(s) ==
    /\ Len(s) >= 2
    /\ s[1] = "[" /\ s[Len(s)] = "]"
    /\ (Len(s) - 2) % 8 = 0
    /\ \A i \in 1..((Len(s) - 2) \div 8) :
          Object(s, i)[1] = "{" /\ Object(s, i)[8] = "}"

\* variant: a body that is not a JSON array decodes to the empty list
UnmarshalAccountsLenient(s) ==
    IF /\ IsArray(s)
       /\ \A i \in 1..((Len(s) - 2) \div 8) : ~Atoi(Member(Object(s, i), "id", "0")).err
    THEN [err |-> FALSE,
          val |-> [i \in 1..((Len(s) - 2) \div 8) |->
                     Acc(Atoi(Member(Object(s, i), "id", "0")).val,
                         Member(Object(s, i), "name", ""),
                         Member(Object(s, i), "currency_code", ""))]]
    ELSE [err |-> FALSE, val |-> <<>>]

UnmarshalAccounts(s) ==
    IF /\ IsArray(s)
       /\ \A i \in 1..((Len(s) - 2) \div 8) : ~Atoi(Member(Object(s, i), "id", "0")).err
    THEN [err |-> FALSE,
          val |-> [i \in 1..((Len(s) - 2) \div 8) |->
                     Acc(Atoi(Member(Object(s, i), "id", "0")).val,
                         Member(Object(s, i), "name", ""),
                         Member(Object(s, i), "currency_code", ""))]]
    ELSE [err |-> TRUE, val |-> <<>>]

UnmarshalParent(t) == IF t = "null" THEN {} ELSE {Atoi(t).val}

UnmarshalCategories(s) ==
    IF /\ IsArray(s)
       /\ \A i \in 1..((Len(s) - 2) \div 8) :
             /\ ~Atoi(Member(Object(s, i), "id", "0")).err
             /\ \/ Member(Object(s, i), "parent_id", "null") = "null"
                \/ ~Atoi(Member(Object(s, i), "parent_id", "null")).err
    THEN [err |-> FALSE,
          val |-> [i \in 1..((Len(s) - 2) \div 8) |->
                     Cat(Atoi(Member(Object(s, i), "id", "0")).val,
                         Member(Object(s, i), "title", ""),
                         UnmarshalParent(Member(Object(s, i), "parent_id", "null")))]]
    ELSE [err |-> TRUE, val |-> <<>>]

\* json.Unmarshal of the body of GET /me into domain.User

UnmarshalUser(s) ==
    IF Len(s) = 4 /\ s[1] = "{" /\ s[2] = "id" /\ s[4] = "}" /\ ~Atoi(s[3]).err
    THEN [err |-> FALSE, val |-> Atoi(s[3]).val]
    ELSE [err |-> TRUE, val |-> 0]

-----------------------------------------------------------------------------
(* The Redis server.  An entry is a string value (key user:id) or a hash   *)
(* (field -> value) with an optional expiry time.                          *)

UserIDKey == <<"user:id", 0>>
AccountsKey(u) == <<"user:%d:accounts", u>>
CategoriesKey(u) == <<"user:%d:categories", u>>

HashKeys == {AccountsKey(u) : u \in UserIDs} \cup {CategoriesKey(u) : u \in UserIDs}
Keys == {UserIDKey} \cup HashKeys

NoExpiry == [has |-> FALSE, at |-> 0]
NoFields == [f \in {} |-> <<>>]

AbsentEntry(k) ==
    [present |-> FALSE, val |-> IF k = UserIDKey THEN "" ELSE NoFields, exp |-> NoExpiry]

\* GET: the value of the key, the empty payload when the key is absent
RedisGet(store, k) == IF store[k].present THEN store[k].val ELSE ""

\* SET: replaces the value and discards any expiry of the key
RedisSet(store, k, v) ==
    [store EXCEPT ![k] = [present |-> TRUE, val |-> v, exp |-> NoExpiry]]

\* variant: the value is appended to the value the field holds
RedisHSetAppending(store, k, f, v) ==
    [store EXCEPT ![k] = [present |-> TRUE,
                          val |-> [g \in DOMAIN @.val \cup {f} |->
                                      IF g # f THEN @.val[g]
                                      ELSE IF f \in DOMAIN @.val THEN @.val[f] \o v ELSE v],
                          exp |-> @.exp]]

\* HSET: sets one field of the hash, keeps the other fields and the expiry
RedisHSet(store, k, f, v) ==
    [store EXCEPT ![k] = [present |-> TRUE,
                          val |-> [g \in DOMAIN @.val \cup {f} |->
                                      IF g = f THEN v ELSE @.val[g]],
                          exp |-> @.exp]]

\* variant: the expiry is set to the present time
RedisExpireAtOnce(store, k, ttl, t) ==
    IF store[k].present
    THEN [store EXCEPT ![k].exp = [has |-> TRUE, at |-> t]]
    ELSE store

\* EXPIRE: sets the expiry of an existing key
RedisExpire(store, k, ttl, t) ==
    IF store[k].present
    THEN [store EXCEPT ![k].exp = [has |-> TRUE, at |-> t + ttl]]
    ELSE store

\* variant: a read renews the expiry of the key it reads
AfterReadTouch(store, k, t) ==
    IF store[k].present /\ store[k].exp.has
    THEN [store EXCEPT ![k].exp = [has |-> TRUE, at |-> t + cacheTTL]]
    ELSE store

\* the store after GET or HGETALL of k: a read changes no value and no expiry
AfterRead(store, k, t) == store

\* HGETALL: alternating field/value pairs, empty when the key is absent
RedisHGetAll(store, k) ==
    LET h == store[k].val
        pair(f) == IF f \in DOMAIN h THEN <<f, h[f]>> ELSE <<>>
    IN  IF store[k].present THEN pair("junk") \o pair("data") ELSE <<>>

\* variant: no key ever expires
ExpireNever(store, t) == store

\* the keys alive at time t
\* variant: a key outlives its expiry time by one instant
ExpireLate(store, t) ==
    [k \in Keys |-> IF store[k].present /\ store[k].exp.has /\ store[k].exp.at < t
                    THEN AbsentEntry(k) ELSE store[k]]

Expire(store, t) ==
    [k \in Keys |-> IF store[k].present /\ store[k].exp.has /\ store[k].exp.at <= t
                    THEN AbsentEntry(k) ELSE store[k]]

-----------------------------------------------------------------------------
(* The cache repository: reads.  fail says whether the Redis command       *)
(* returned an error.  why names the failure, for the history only.        *)

\* variant: a failed cache read returns an empty list and no error
MissWithoutError(why) == [err |-> FALSE, val |-> <<>>, why |-> why]

Miss(why) == [err |-> TRUE, val |-> <<>>, why |-> why]
Hit(v) == [err |-> FALSE, val |-> v, why |-> "none"]

\* the map built from the alternating field/value pairs of HGETALL
FieldMap(results) ==
    LET idx == {i \in 1..Len(results) : i % 2 = 1 /\ i + 1 <= Len(results)}
    IN  [f \in {results[i] : i \in idx} |->
            results[(CHOOSE i \in idx : results[i] = f) + 1]]

RepoGetUserID(store, fail) ==
    IF fail THEN [err |-> TRUE, val |-> 0, why |-> "store"]
    ELSE LET n == Atoi(RedisGet(store, UserIDKey))
         IN  IF n.err
             THEN [err |-> TRUE, val |-> 0,
                   why |-> IF store[UserIDKey].present THEN "decode" ELSE "absent"]
             ELSE [err |-> FALSE, val |-> n.val, why |-> "none"]

RepoGetTransactionAccounts(store, userID, fail) ==
    LET results == RedisHGetAll(store, AccountsKey(userID))
    IN  IF fail THEN Miss("store")
        ELSE IF Len(results) = 0 THEN Miss("absent")
        ELSE IF "data" \notin DOMAIN FieldMap(results) THEN Miss("nodata")
        ELSE IF UnmarshalAccounts(FieldMap(results)["data"]).err THEN Miss("decode")
        ELSE Hit(UnmarshalAccounts(FieldMap(results)["data"]).val)

RepoGetCategories(store, userID, fail) ==
    LET results == RedisHGetAll(store, CategoriesKey(userID))
    IN  IF fail THEN Miss("store")
        ELSE IF Len(results) = 0 THEN Miss("absent")
        ELSE IF "data" \notin DOMAIN FieldMap(results) THEN Miss("nodata")
        ELSE IF UnmarshalCategories(FieldMap(results)["data"]).err THEN Miss("decode")
        ELSE Hit(UnmarshalCategories(FieldMap(results)["data"]).val)

-----------------------------------------------------------------------------
(* Errors.  A Go error value is its dynamic type, its message prefix and   *)
(* the HTTP status it reports (0 when it reports none).                    *)

NoError == [type |-> "nil", msg |-> "", status |-> 0, arg |-> ""]

\* fmt.Errorf without %w (the status error) and with %w (the other client errors)
Errorf(msg, status) ==
    [type |-> IF msg = "PocketSmith request failed with status"
              THEN "*errors.errorString" ELSE "*fmt.wrapError",
     msg |-> msg, status |-> status, arg |-> ""]

\* fmt.Errorf("msg: %w", cause) of the service
Wrap(msg, cause) == [type |-> "*fmt.wrapError", msg |-> msg, status |-> cause.status, arg |-> cause.msg]
\* variant: the lookup error names the lowered value
LookupErrorLowered(msg, arg) ==
    [type |-> "*lookupError", msg |-> msg, status |-> 0, arg |-> ToLower(arg)]

\* &lookupError{message: fmt.Sprintf("msg: %s", arg)}
LookupError(msg, arg) == [type |-> "*lookupError", msg |-> msg, status |-> 0, arg |-> arg]

\* variant: every error passes for a lookup error
IsLookupErrorAnyError(err) == err.type # "nil"

IsLookupError(err) == err.type = "*lookupError"

-----------------------------------------------------------------------------
(* The PocketSmith API.  A response is a transport failure, a failure to   *)
(* read the body, or a status with a body.                                 *)

ErrorStatuses == {StatusCreated, StatusInternalServerError}

\* the JSON texts the API sends for the ledger: its own member order
BodyUser(id) == <<"{", "id", Itoa(id), "}">>

BodyAccounts(list) ==
    <<"[">> \o Flatten([i \in DOMAIN list |->
                <<"{", "currency_code", list[i].CurrencyCode, "id", Itoa(list[i].ID),
                  "name", list[i].Name, "}">>]) \o <<"]">>

BodyCategories(list) ==
    <<"[">> \o Flatten([i \in DOMAIN list |->
                <<"{", "id", Itoa(list[i].ID), "parent_id",
                  IF list[i].ParentID = {} THEN "null"
                  ELSE Itoa(CHOOSE x \in list[i].ParentID : TRUE),
                  "title", list[i].Title, "}">>]) \o <<"]">>

Responses(body) ==
    {[fail |-> f, status |-> 0, body |-> <<>>, bad |-> TRUE] : f \in {"send", "read"}}
    \cup {[fail |-> "none", status |-> StatusOK, body |-> body, bad |-> FALSE]}
    \cup {[fail |-> "none", status |-> StatusOK, body |-> Malformed, bad |-> TRUE]}
    \cup {[fail |-> "none", status |-> StatusCreated, body |-> body, bad |-> TRUE]}
    \cup {[fail |-> "none", status |-> StatusInternalServerError, body |-> <<"error">>,
            bad |-> TRUE]}

\* ledgers with lists out of alphabetical order and with a title held twice
HandlerLedgers ==
    { [up |-> TRUE, user |-> 7,  accounts |-> <<A1, A3>>, categories |-> <<K1, K3, K4>>],
      [up |-> TRUE, user |-> 12, accounts |-> <<>>,       categories |-> <<>>] }

Ledgers ==
    { [up |-> TRUE, user |-> 7,  accounts |-> <<A1>>,     categories |-> <<K1>>],
      [up |-> TRUE, user |-> 12, accounts |-> <<A1, A2>>, categories |-> <<K3, K1>>],
      [up |-> TRUE, user |-> 7,  accounts |-> <<A2, A1>>, categories |-> <<K2, K1>>],
      [up |-> TRUE, user |-> 12, accounts |-> <<>>,       categories |-> <<>>] }

-----------------------------------------------------------------------------
(* History of one read operation of one request *)

Kinds == {"me", "accounts", "categories"}

NoObs ==
    [started |-> FALSE,  \* the operation was called
     done |-> FALSE,     \* the operation returned
     ok |-> FALSE,       \* it returned data and no error
     hit |-> FALSE,      \* the cache read succeeded
     why |-> "none",     \* why the cache read failed
     rat |-> 0,          \* time of the cache read
     net |-> 0,          \* HTTP calls issued
     status |-> 0,       \* HTTP status received
     writes |-> 0,       \* cache write commands that took effect
     wfail |-> FALSE,    \* a cache write command failed
     wat |-> 0]          \* time of the EXPIRE command that took effect

NoPrev == [valid |-> FALSE, u |-> 0, net |-> 0, wat |-> 0]

\* the amount "-42.50", a string of characters
Amount4250 == <<"-", "4", "2", ".", "5", "0">>

NoTx == [Account |-> "", Category |-> "", Merchant |-> "", Amount |-> <<>>, Date |-> ""]

Txs ==
    {[Account |-> a, Category |-> c, Merchant |-> "Store", Amount |-> Amount4250,
      Date |-> "2025-01-13"] : a \in AccountNames, c \in CategoryTitles}

\* transactions as the service's interface admits them: no field is checked
ServiceTxs ==
    {[Account |-> "USD General", Category |-> c, Merchant |-> "Store", Amount |-> Amount4250,
      Date |-> "2025-01-13"] : c \in {"", "Groceries"}}

NoCategoryID == {}

NoCall == [accountID |-> 0,
           psTx |-> [Payee |-> "", Amount |-> <<>>, Date |-> "", IsTransfer |-> FALSE,
                     CategoryID |-> NoCategoryID]]

-----------------------------------------------------------------------------
(* The HTTP requests.  A header value and the value parameter are strings  *)
(* of characters or of longer pieces; a body is the JSON text it decodes   *)
(* to: the method and the params of the RPCRequest, absent members empty.  *)

clientAuthKey == <<"secret">>

NoParams ==
    [account |-> "", currency |-> "", category |-> "", merchant |-> "", value |-> <<>>,
     date |-> ""]

\* a body that is not JSON
NoBody == [json |-> FALSE, method |-> "", hasParams |-> FALSE, params |-> NoParams]

Body(method, params) == [json |-> TRUE, method |-> method, hasParams |-> TRUE, params |-> params]

\* no HTTP request: the service is called without the handler
NoReq == [method |-> "", path |-> "", contentType |-> "", authorization |-> <<>>, body |-> NoBody]

AppendPath == "/api/v1/transactions/append"
CategoriesPath == "/api/v1/categories"
AccountsPath == "/api/v1/accounts"
ShortcutEntitiesPath == "/api/v1/shortcut_entities"

\* the parameters the handler decodes: the account name goes under "currency"
GoodParams ==
    [account |-> "", currency |-> "USD General", category |-> "Groceries",
     merchant |-> "Store", value |-> <<"-", "4", "2", ",", "5", "0">>, date |-> "2025-01-13"]

\* the parameters the README documents: the account name goes under "account"
DocumentedParams == [GoodParams EXCEPT !.account = "USD General", !.currency = ""]

GoodRequest ==
    [method |-> "POST", path |-> AppendPath, contentType |-> "application/json",
     authorization |-> <<"Bearer ">> \o clientAuthKey, body |-> Body("transactions.add", GoodParams)]

GetRequest(path) ==
    [method |-> "GET", path |-> path, contentType |-> "", authorization |-> <<"Bearer ">> \o clientAuthKey,
     body |-> NoBody]

BadAuthorizations == {<<>>, <<"Bearer ", "wrong">>, <<"Bearer ">>}

\* the requests of the model: the good ones and their deviations
Requests ==
    {GoodRequest}
    \cup {GetRequest(path) : path \in {CategoriesPath, AccountsPath, ShortcutEntitiesPath}}
    \cup {[GoodRequest EXCEPT !.method = m] : m \in {"GET", "PUT"}}
    \cup {[GoodRequest EXCEPT !.path = "/api/v1/other"]}
    \cup {[GetRequest(CategoriesPath) EXCEPT !.method = "POST"]}
    \cup {[GoodRequest EXCEPT !.contentType = "text/plain"]}
    \cup {[GoodRequest EXCEPT !.authorization = a] : a \in BadAuthorizations \cup {clientAuthKey}}
    \cup {[GoodRequest EXCEPT !.authorization = <<>>, !.contentType = "text/plain"]}
    \cup {[GetRequest(path) EXCEPT !.authorization = a] :
            path \in {CategoriesPath, AccountsPath, ShortcutEntitiesPath}, a \in BadAuthorizations}
    \cup {[GoodRequest EXCEPT !.body = b] :
            b \in {NoBody, Body("transactions.delete", GoodParams),
                   [Body("transactions.add", NoParams) EXCEPT !.hasParams = FALSE],
                   Body("transactions.add", DocumentedParams),
                   Body("transactions.add", [GoodParams EXCEPT !.account = "USD General"]),
                   Body("transactions.add", [GoodParams EXCEPT !.category = ""]),
                   Body("transactions.add", [GoodParams EXCEPT !.merchant = ""]),
                   Body("transactions.add", [GoodParams EXCEPT !.date = ""]),
                   Body("transactions.add", [GoodParams EXCEPT !.value = <<>>]),
                   Body("transactions.add", [GoodParams EXCEPT !.value = Amount4250]),
                   Body("transactions.add", [GoodParams EXCEPT !.value = <<"1", ",", "2", ",", "5">>]),
                   Body("transactions.add", [GoodParams EXCEPT !.value = <<"1", ",", "2", ".", "5">>])}}

\* strings.TrimPrefix(header, "Bearer ")
TrimPrefix(h) == IF h # <<>> /\ Head(h) = "Bearer " THEN Tail(h) ELSE h

\* variant: any header in the Bearer scheme is let in
validateAuthAnyBearer(r) == r.authorization # <<>> /\ Head(r.authorization) = "Bearer "

\* HTTPHandler.validateAuth
validateAuth(r) == clientAuthKey = TrimPrefix(r.authorization)

\* variant: only the first comma is replaced
RECURSIVE ReplaceAllOnce(_)
ReplaceAllOnce(v) ==
    IF v = <<>> THEN <<>>
    ELSE IF Head(v) = "," THEN <<".">> \o Tail(v)
    ELSE <<Head(v)>> \o ReplaceAllOnce(Tail(v))

\* strings.ReplaceAll(amount, ",", ".")
RECURSIVE ReplaceAll(_)
ReplaceAll(v) ==
    IF v = <<>> THEN <<>>
    ELSE <<IF Head(v) = "," THEN "." ELSE Head(v)>> \o ReplaceAll(Tail(v))

\* strings.Count(amount, ".")
Count(v) == Cardinality({i \in DOMAIN v : v[i] = "."})

Rejected(code) == [statusCode |-> code, tx |-> NoTx]

\* HTTPHandler.validateAndParseRequest: the status and the transaction
validateAndParseRequest(r) ==
    IF r.method # "POST" THEN Rejected(StatusMethodNotAllowed)
    ELSE IF r.contentType # "application/json" THEN Rejected(StatusBadRequest)
    ELSE IF ~validateAuth(r) THEN Rejected(StatusForbidden)
    ELSE IF ~r.body.json THEN Rejected(StatusBadRequest)
    ELSE IF r.body.method # "transactions.add" THEN Rejected(StatusBadRequest)
    ELSE IF ~r.body.hasParams THEN Rejected(StatusBadRequest)
    ELSE LET txParams == r.body.params
         IN  IF \/ txParams.currency = "" \/ txParams.category = "" \/ txParams.merchant = ""
                \/ txParams.value = <<>> \/ txParams.date = ""
             THEN Rejected(StatusBadRequest)
             ELSE LET amount == ReplaceAll(txParams.value)
                  IN  IF Count(amount) > 1 THEN Rejected(StatusUnprocessableEntity)
                      ELSE [statusCode |-> StatusOK,
                            tx |-> [Account |-> txParams.currency, Category |-> txParams.category,
                                    Merchant |-> txParams.merchant, Amount |-> amount,
                                    Date |-> txParams.date]]

\* the switch of HTTPHandler.Handle
Route(r) ==
    IF r.path = AppendPath /\ r.method = "POST" THEN "AddTransaction"
    ELSE IF r.path = CategoriesPath /\ r.method = "GET" THEN "GetCategories"
    ELSE IF r.path = AccountsPath /\ r.method = "GET" THEN "GetAccounts"
    ELSE IF r.path = ShortcutEntitiesPath /\ r.method = "GET" THEN "GetShortcutEntities"
    ELSE "NotFound"

-----------------------------------------------------------------------------

\* the nil slice and the nil pointer a service operation returns with an error
NoResult == <<>>

EmptyStore == [k \in Keys |-> AbsentEntry(k)]

\* a store that holds entries this program cannot read
CorruptStore ==
    [k \in Keys |->
        IF k = UserIDKey
        THEN [present |-> TRUE, val |-> "abc", exp |-> NoExpiry]
        ELSE IF k \in {AccountsKey(u) : u \in UserIDs}
        THEN [present |-> TRUE, val |-> [f \in {"junk"} |-> <<"x">>], exp |-> NoExpiry]
        ELSE [present |-> TRUE, val |-> [f \in {"data"} |-> Malformed], exp |-> NoExpiry]]

StartOn(store, ledgers) ==
    /\ redis = store
    /\ now = 0
    /\ remote \in ledgers
    /\ pc = [p \in Procs |-> "idle"]
    /\ req = [p \in Procs |-> NoReq]
    /\ op = [p \in Procs |-> "none"]
    /\ tx = [p \in Procs |-> NoTx]
    /\ user = [p \in Procs |-> 0]
    /\ accounts = [p \in Procs |-> <<>>]
    /\ categories = [p \in Procs |-> <<>>]
    /\ fetched = [p \in Procs |-> <<>>]
    /\ call = [p \in Procs |-> NoCall]
    /\ ret = [p \in Procs |-> NoError]
    /\ statusCode = [p \in Procs |-> 0]
    /\ result = [p \in Procs |-> NoResult]
    /\ obs = [p \in Procs |-> [k \in Kinds |-> NoObs]]
    /\ posted = [p \in Procs |-> <<>>]
    /\ prevAcc = [p \in Procs |-> NoPrev]
    /\ served = 0
    /\ faults = 0

Start(store) == StartOn(store, Ledgers)

\* the program starts on an empty cache
Init == Start(EmptyStore)

\* the program starts on a cache that other writers have filled
InitPre == Start(CorruptStore)

-----------------------------------------------------------------------------
(* Steps shared by the actions *)

Goto(p, label) == pc' = [pc EXCEPT ![p] = label]

Note(p, kind, o) == obs' = [obs EXCEPT ![p][kind] = o]

\* the history of an EXPIRE command on the key k: it takes effect when k exists
NoteExpire(o, k) ==
    IF redis[k].present THEN [o EXCEPT !.writes = @ + 1, !.wat = now] ELSE o

\* variant: the handler answers 200 whatever the service returned
handleAddTransactionAlwaysOK(err) == StatusOK

\* HTTPHandler.handleAddTransaction: the status written for what the service returned
handleAddTransaction(err) ==
    IF err # NoError
    THEN IF IsLookupError(err) THEN StatusBadRequest ELSE StatusInternalServerError
    ELSE StatusOK

\* AddTransaction returns err and the handler answers
Return(p, err) ==
    /\ ret' = [ret EXCEPT ![p] = err]
    /\ statusCode' = [statusCode EXCEPT ![p] = handleAddTransaction(err)]
    /\ result' = [result EXCEPT ![p] = NoResult]
    /\ Goto(p, "done")

\* variant: the service drops the error of the read operation and resolves
FailReadSwallowed(p, kind, msg, cause, o) ==
    /\ Note(p, kind, [o EXCEPT !.done = TRUE, !.ok = FALSE])
    /\ Goto(p, "resolve")
    /\ UNCHANGED <<ret, statusCode, result>>

\* a list operation of the service returns value and the handler answers 200
Respond(p, value) ==
    /\ ret' = [ret EXCEPT ![p] = NoError]
    /\ statusCode' = [statusCode EXCEPT ![p] = StatusOK]
    /\ result' = [result EXCEPT ![p] = value]
    /\ Goto(p, "done")

\* variant: the service records the error of the read operation and goes on
FailReadGoesOn(p, kind, msg, cause, o) ==
    /\ Note(p, kind, [o EXCEPT !.done = TRUE, !.ok = FALSE])
    /\ ret' = [ret EXCEPT ![p] = Wrap(msg, cause)]
    /\ statusCode' = [statusCode EXCEPT ![p] = handleAddTransaction(Wrap(msg, cause))]
    /\ UNCHANGED result
    /\ Goto(p, CASE kind = "me" -> "GetTransactionAccounts"
                 [] kind = "accounts" -> "GetCategories"
                 [] OTHER -> "resolve")

\* variant: a failed HTTP call of a read operation is issued again
FailReadRetried(p, kind, msg, cause, o) ==
    /\ Note(p, kind, o)
    /\ Goto(p, CASE kind = "me" -> "GetMe_send"
                 [] kind = "accounts" -> "GetTransactionAccounts_send"
                 [] OTHER -> "GetCategories_send")
    /\ UNCHANGED <<ret, statusCode, result>>

\* variant: the error of the accounts fetch is kept and the categories are fetched all the same
FailReadAfterBoth(p, kind, msg, cause, o) ==
    /\ Note(p, kind, [o EXCEPT !.done = TRUE, !.ok = FALSE])
    /\ ret' = [ret EXCEPT ![p] = Wrap(msg, cause)]
    /\ statusCode' = [statusCode EXCEPT ![p] = handleAddTransaction(Wrap(msg, cause))]
    /\ UNCHANGED result
    /\ Goto(p, IF kind = "accounts" THEN "GetCategories" ELSE "done")

\* a read operation of the client fails with cause: the service wraps it and returns
FailRead(p, kind, msg, cause, o) ==
    /\ Note(p, kind, [o EXCEPT !.done = TRUE, !.ok = FALSE])
    /\ Return(p, Wrap(msg, cause))

\* the environment may fail a command or a call while the budget lasts
MayFail == IF faults < MaxFaults THEN BOOLEAN ELSE {FALSE}

IsFault(resp) == resp.fail # "none" \/ resp.bad

\* the answers an HTTP call may get: while the API is down the connection
\* fails or a gateway answers 500
Allowed(S) ==
    IF ~remote.up THEN {r \in S : r.fail = "send" \/ r.status = StatusInternalServerError}
    ELSE IF faults < MaxFaults THEN S
    ELSE {r \in S : ~IsFault(r)}

Fault(b) == faults' = IF b /\ faults < MaxFaults THEN faults + 1 ELSE faults

\* variant: the result of the cache read is never taken for a hit
CacheHitIgnored(r) == FALSE

\* `if err == nil` after the cache read of a read operation: a cache hit
CacheHit(r) == ~r.err

\* variant: every 2xx status passes for success
ReadSucceededAny2xx(resp) == resp.status \in {StatusOK, StatusCreated}

\* `resp.StatusCode != http.StatusOK` of a read operation, negated
ReadSucceeded(resp) == resp.status = StatusOK

-----------------------------------------------------------------------------
(* TransactionServiceImpl.AddTransaction is called *)

Begin(p, txs) ==
    /\ pc[p] = "idle"
    /\ served < MaxRequests
    /\ \E t \in txs : tx' = [tx EXCEPT ![p] = t]
    /\ op' = [op EXCEPT ![p] = "AddTransaction"]
    /\ UNCHANGED req
    /\ served' = served + 1
    /\ Goto(p, "GetMe")
    /\ UNCHANGED <<redis, now, remote, user, accounts, categories, fetched, call,
                   ret, statusCode, result, obs, posted, prevAcc, faults>>

\* the handler calls the service with a transaction that passed its validation
AddTransaction(p) == Begin(p, Txs)

\* the handler answers without calling the service
Reject(p, code) ==
    /\ statusCode' = [statusCode EXCEPT ![p] = code]
    /\ Goto(p, "done")
    /\ UNCHANGED <<op, tx, ret, result>>

\* the handler calls the operation o of the service
Call(p, o, t) ==
    /\ op' = [op EXCEPT ![p] = o]
    /\ tx' = [tx EXCEPT ![p] = t]
    /\ Goto(p, "GetMe")
    /\ UNCHANGED <<ret, statusCode, result>>

\* HTTPHandler.Handle: a request comes in, it is routed and validated
Handle(p) ==
    /\ pc[p] = "idle"
    /\ served < MaxRequests
    /\ served' = served + 1
    /\ \E r \in Requests :
          /\ req' = [req EXCEPT ![p] = r]
          /\ IF Route(r) = "NotFound" THEN Reject(p, StatusNotFound)
             ELSE IF Route(r) = "AddTransaction"
             THEN IF validateAndParseRequest(r).statusCode # StatusOK
                  THEN Reject(p, validateAndParseRequest(r).statusCode)
                  ELSE Call(p, "AddTransaction", validateAndParseRequest(r).tx)
             ELSE IF ~validateAuth(r) THEN Reject(p, StatusForbidden)
             ELSE Call(p, Route(r), NoTx)
    /\ UNCHANGED <<redis, now, remote, user, accounts, categories, fetched, call,
                   obs, posted, prevAcc, faults>>

\* another caller of the TransactionService interface: the category may be empty
AddTransactionDirect(p) == Begin(p, ServiceTxs)

-----------------------------------------------------------------------------
(* HTTPPocketSmithClient.GetMe *)

\* the service has the user: it goes on to fetch the accounts
GotMe(p, id, o) ==
    /\ user' = [user EXCEPT ![p] = id]
    /\ Note(p, "me", [o EXCEPT !.done = TRUE, !.ok = TRUE])
    /\ Goto(p, IF op[p] = "GetCategories" THEN "GetCategories" ELSE "GetTransactionAccounts")
    /\ UNCHANGED <<ret, statusCode, result>>

\* the cache write failed: a warning is logged and the user is returned
CacheWriteFailedMe(p, o) == GotMe(p, fetched[p], o)

GetMe(p) ==
    /\ pc[p] = "GetMe"
    /\ \E fail \in MayFail :
          /\ Fault(fail)
          /\ LET r == RepoGetUserID(redis, fail)
                 o == [obs[p]["me"] EXCEPT !.started = TRUE, !.hit = ~r.err, !.why = r.why,
                                        !.rat = now]
             IN  IF CacheHit(r)
                 THEN GotMe(p, r.val, o)
                 ELSE /\ Note(p, "me", o)
                      /\ Goto(p, "GetMe_send")
                      /\ UNCHANGED <<user, ret, statusCode, result>>
    /\ redis' = AfterRead(redis, UserIDKey, now)
    /\ UNCHANGED <<now, remote, req, op, tx, accounts, categories, fetched, call,
                   posted, prevAcc, served>>

GetMe_send(p) ==
    /\ pc[p] = "GetMe_send"
    /\ \E resp \in Allowed(Responses(BodyUser(remote.user))) :
          /\ Fault(IsFault(resp))
          /\ LET o == [obs[p]["me"] EXCEPT !.net = @ + 1, !.status = resp.status]
             IN  IF resp.fail = "send"
                 THEN /\ FailRead(p, "me", "failed to get user info",
                                  Errorf("send request to PocketSmith", 0), o)
                      /\ UNCHANGED fetched
                 ELSE IF resp.fail = "read"
                 THEN /\ FailRead(p, "me", "failed to get user info",
                                  Errorf("read response from PocketSmith", 0), o)
                      /\ UNCHANGED fetched
                 ELSE IF ~ReadSucceeded(resp)
                 THEN /\ FailRead(p, "me", "failed to get user info",
                                  Errorf("PocketSmith request failed with status", resp.status), o)
                      /\ UNCHANGED fetched
                 ELSE IF UnmarshalUser(resp.body).err
                 THEN /\ FailRead(p, "me", "failed to get user info",
                                  Errorf("unmarshal response", 0), o)
                      /\ UNCHANGED fetched
                 ELSE /\ fetched' = [fetched EXCEPT ![p] = UnmarshalUser(resp.body).val]
                      /\ Note(p, "me", o)
                      /\ Goto(p, "SetUserID")
                      /\ UNCHANGED <<ret, statusCode, result>>
    /\ UNCHANGED <<redis, now, remote, req, op, tx, user, accounts, categories, call,
                   posted, prevAcc, served>>

\* RedisCacheRepository.SetUserID: the SET command
SetUserID(p) ==
    /\ pc[p] = "SetUserID"
    /\ \E fail \in MayFail :
          /\ Fault(fail)
          /\ IF fail
             THEN /\ CacheWriteFailedMe(p, [obs[p]["me"] EXCEPT !.wfail = TRUE])
                  /\ UNCHANGED redis
             ELSE /\ redis' = RedisSet(redis, UserIDKey, Itoa(fetched[p]))
                  /\ Note(p, "me", [obs[p]["me"] EXCEPT !.writes = @ + 1])
                  /\ Goto(p, "SetUserID_expire")
                  /\ UNCHANGED <<user, ret, statusCode, result>>
    /\ UNCHANGED <<now, remote, req, op, tx, accounts, categories, fetched, call,
                   posted, prevAcc, served>>

\* RedisCacheRepository.SetUserID: the EXPIRE command
SetUserID_expire(p) ==
    /\ pc[p] = "SetUserID_expire"
    /\ \E fail \in MayFail :
          /\ Fault(fail)
          /\ IF fail
             THEN /\ CacheWriteFailedMe(p, [obs[p]["me"] EXCEPT !.wfail = TRUE])
                  /\ UNCHANGED redis
             ELSE /\ redis' = RedisExpire(redis, UserIDKey, cacheTTL, now)
                  /\ GotMe(p, fetched[p], NoteExpire(obs[p]["me"], UserIDKey))
    /\ UNCHANGED <<now, remote, req, op, tx, accounts, categories, fetched, call,
                   posted, prevAcc, served>>

-----------------------------------------------------------------------------
(* HTTPPocketSmithClient.GetTransactionAccounts *)

\* variant: the service resolves without fetching the categories
GotAccountsOnly(p, list, o) ==
    /\ accounts' = [accounts EXCEPT ![p] = list]
    /\ Note(p, "accounts", [o EXCEPT !.done = TRUE, !.ok = TRUE])
    /\ Goto(p, "resolve")
    /\ UNCHANGED <<ret, statusCode, result>>

\* the service has the accounts: it goes on
GotAccounts(p, list, o) ==
    /\ accounts' = [accounts EXCEPT ![p] = list]
    /\ Note(p, "accounts", [o EXCEPT !.done = TRUE, !.ok = TRUE])
    /\ IF op[p] = "GetAccounts"
       THEN Respond(p, AccountInfos(list))
       ELSE /\ Goto(p, "GetCategories")
            /\ UNCHANGED <<ret, statusCode, result>>

\* variant: the error of the cache write is returned to the service
CacheWriteFailedAccountsFatal(p, o) ==
    /\ FailRead(p, "accounts", "failed to get transaction accounts",
                Errorf("redis hset", 0), o)
    /\ UNCHANGED accounts

\* the cache write failed: a warning is logged and the accounts are returned
CacheWriteFailedAccounts(p, o) == GotAccounts(p, fetched[p], o)

GetTransactionAccounts(p) ==
    /\ pc[p] = "GetTransactionAccounts"
    /\ \E fail \in MayFail :
          /\ Fault(fail)
          /\ LET r == RepoGetTransactionAccounts(redis, user[p], fail)
                 o == [obs[p]["accounts"] EXCEPT !.started = TRUE, !.hit = ~r.err, !.why = r.why,
                                        !.rat = now]
             IN  IF CacheHit(r)
                 THEN GotAccounts(p, r.val, o)
                 ELSE /\ Note(p, "accounts", o)
                      /\ Goto(p, "GetTransactionAccounts_send")
                      /\ UNCHANGED <<accounts, ret, statusCode, result>>
    /\ redis' = AfterRead(redis, AccountsKey(user[p]), now)
    /\ UNCHANGED <<now, remote, req, op, tx, user, categories, fetched, call,
                   posted, prevAcc, served>>

GetTransactionAccounts_send(p) ==
    /\ pc[p] = "GetTransactionAccounts_send"
    /\ \E resp \in Allowed(Responses(BodyAccounts(remote.accounts))) :
          /\ Fault(IsFault(resp))
          /\ LET o == [obs[p]["accounts"] EXCEPT !.net = @ + 1, !.status = resp.status]
             IN  IF resp.fail = "send"
                 THEN /\ FailRead(p, "accounts", "failed to get transaction accounts",
                                  Errorf("send request to PocketSmith", 0), o)
                      /\ UNCHANGED fetched
                 ELSE IF resp.fail = "read"
                 THEN /\ FailRead(p, "accounts", "failed to get transaction accounts",
                                  Errorf("read response from PocketSmith", 0), o)
                      /\ UNCHANGED fetched
                 ELSE IF ~ReadSucceeded(resp)
                 THEN /\ FailRead(p, "accounts", "failed to get transaction accounts",
                                  Errorf("PocketSmith request failed with status", resp.status), o)
                      /\ UNCHANGED fetched
                 ELSE IF UnmarshalAccounts(resp.body).err
                 THEN /\ FailRead(p, "accounts", "failed to get transaction accounts",
                                  Errorf("unmarshal response", 0), o)
                      /\ UNCHANGED fetched
                 ELSE /\ fetched' = [fetched EXCEPT ![p] = UnmarshalAccounts(resp.body).val]
                      /\ Note(p, "accounts", o)
                      /\ Goto(p, "SetTransactionAccounts")
                      /\ UNCHANGED <<ret, statusCode, result>>
    /\ UNCHANGED <<redis, now, remote, req, op, tx, user, accounts, categories, call,
                   posted, prevAcc, served>>

\* RedisCacheRepository.SetTransactionAccounts: the HSET command
SetTransactionAccounts(p) ==
    /\ pc[p] = "SetTransactionAccounts"
    /\ \E fail \in MayFail :
          /\ Fault(fail)
          /\ IF fail
             THEN /\ CacheWriteFailedAccounts(p, [obs[p]["accounts"] EXCEPT !.wfail = TRUE])
                  /\ UNCHANGED redis
             ELSE /\ redis' = RedisHSet(redis, AccountsKey(user[p]), "data", MarshalAccounts(fetched[p]))
                  /\ Note(p, "accounts", [obs[p]["accounts"] EXCEPT !.writes = @ + 1])
                  /\ Goto(p, "SetTransactionAccounts_expire")
                  /\ UNCHANGED <<accounts, ret, statusCode, result>>
    /\ UNCHANGED <<now, remote, req, op, tx, user, categories, fetched, call,
                   posted, prevAcc, served>>

\* RedisCacheRepository.SetTransactionAccounts: the EXPIRE command
SetTransactionAccounts_expire(p) ==
    /\ pc[p] = "SetTransactionAccounts_expire"
    /\ \E fail \in MayFail :
          /\ Fault(fail)
          /\ IF fail
             THEN /\ CacheWriteFailedAccounts(p, [obs[p]["accounts"] EXCEPT !.wfail = TRUE])
                  /\ UNCHANGED redis
             ELSE /\ redis' = RedisExpire(redis, AccountsKey(user[p]), cacheTTL, now)
                  /\ GotAccounts(p, fetched[p], NoteExpire(obs[p]["accounts"], AccountsKey(user[p])))
    /\ UNCHANGED <<now, remote, req, op, tx, user, categories, fetched, call,
                   posted, prevAcc, served>>

-----------------------------------------------------------------------------
(* HTTPPocketSmithClient.GetCategories *)

\* the service has the categories: it goes on
GotCategories(p, list, o) ==
    /\ categories' = [categories EXCEPT ![p] = list]
    /\ Note(p, "categories", [o EXCEPT !.done = TRUE, !.ok = TRUE])
    /\ IF op[p] = "GetCategories"
       THEN Respond(p, SortStrings(Titles(list)))
       ELSE IF op[p] = "GetShortcutEntities"
       THEN Respond(p, [Accounts |-> AccountInfos(accounts[p]),
                        Categories |-> SortStrings(Titles(list))])
       ELSE /\ Goto(p, "resolve")
            /\ UNCHANGED <<ret, statusCode, result>>

\* the cache write failed: a warning is logged and the categories are returned
CacheWriteFailedCategories(p, o) == GotCategories(p, fetched[p], o)

GetCategories(p) ==
    /\ pc[p] = "GetCategories"
    /\ \E fail \in MayFail :
          /\ Fault(fail)
          /\ LET r == RepoGetCategories(redis, user[p], fail)
                 o == [obs[p]["categories"] EXCEPT !.started = TRUE, !.hit = ~r.err, !.why = r.why,
                                        !.rat = now]
             IN  IF CacheHit(r)
                 THEN GotCategories(p, r.val, o)
                 ELSE /\ Note(p, "categories", o)
                      /\ Goto(p, "GetCategories_send")
                      /\ UNCHANGED <<categories, ret, statusCode, result>>
    /\ redis' = AfterRead(redis, CategoriesKey(user[p]), now)
    /\ UNCHANGED <<now, remote, req, op, tx, user, accounts, fetched, call,
                   posted, prevAcc, served>>

GetCategories_send(p) ==
    /\ pc[p] = "GetCategories_send"
    /\ \E resp \in Allowed(Responses(BodyCategories(remote.categories))) :
          /\ Fault(IsFault(resp))
          /\ LET o == [obs[p]["categories"] EXCEPT !.net = @ + 1, !.status = resp.status]
             IN  IF resp.fail = "send"
                 THEN /\ FailRead(p, "categories", "failed to get categories",
                                  Errorf("send request to PocketSmith", 0), o)
                      /\ UNCHANGED fetched
                 ELSE IF resp.fail = "read"
                 THEN /\ FailRead(p, "categories", "failed to get categories",
                                  Errorf("read response from PocketSmith", 0), o)
                      /\ UNCHANGED fetched
                 ELSE IF ~ReadSucceeded(resp)
                 THEN /\ FailRead(p, "categories", "failed to get categories",
                                  Errorf("PocketSmith request failed with status", resp.status), o)
                      /\ UNCHANGED fetched
                 ELSE IF UnmarshalCategories(resp.body).err
                 THEN /\ FailRead(p, "categories", "failed to get categories",
                                  Errorf("unmarshal response", 0), o)
                      /\ UNCHANGED fetched
                 ELSE /\ fetched' = [fetched EXCEPT ![p] = UnmarshalCategories(resp.body).val]
                      /\ Note(p, "categories", o)
                      /\ Goto(p, "SetCategories")
                      /\ UNCHANGED <<ret, statusCode, result>>
    /\ UNCHANGED <<redis, now, remote, req, op, tx, user, accounts, categories, call,
                   posted, prevAcc, served>>

\* RedisCacheRepository.SetCategories: the HSET command
SetCategories(p) ==
    /\ pc[p] = "SetCategories"
    /\ \E fail \in MayFail :
          /\ Fault(fail)
          /\ IF fail
             THEN /\ CacheWriteFailedCategories(p, [obs[p]["categories"] EXCEPT !.wfail = TRUE])
                  /\ UNCHANGED redis
             ELSE /\ redis' = RedisHSet(redis, CategoriesKey(user[p]), "data", MarshalCategories(fetched[p]))
                  /\ Note(p, "categories", [obs[p]["categories"] EXCEPT !.writes = @ + 1])
                  /\ Goto(p, "SetCategories_expire")
                  /\ UNCHANGED <<categories, ret, statusCode, result>>
    /\ UNCHANGED <<now, remote, req, op, tx, user, accounts, fetched, call,
                   posted, prevAcc, served>>

\* RedisCacheRepository.SetCategories: the EXPIRE command
SetCategories_expire(p) ==
    /\ pc[p] = "SetCategories_expire"
    /\ \E fail \in MayFail :
          /\ Fault(fail)
          /\ IF fail
             THEN /\ CacheWriteFailedCategories(p, [obs[p]["categories"] EXCEPT !.wfail = TRUE])
                  /\ UNCHANGED redis
             ELSE /\ redis' = RedisExpire(redis, CategoriesKey(user[p]), cacheTTL, now)
                  /\ GotCategories(p, fetched[p], NoteExpire(obs[p]["categories"], CategoriesKey(user[p])))
    /\ UNCHANGED <<now, remote, req, op, tx, user, accounts, fetched, call,
                   posted, prevAcc, served>>

-----------------------------------------------------------------------------
(* TransactionServiceImpl.AddTransaction: resolution of the names *)

Min(S) == CHOOSE x \in S : \A y \in S : x <= y

\* variant: the account name is compared as the caller wrote it
accountLowerAsGiven(t) == t.Account

\* accountLower := strings.ToLower(tx.Account)
accountLower(t) == ToLower(t.Account)

\* categoryLower := strings.ToLower(tx.Category)
categoryLower(t) == ToLower(t.Category)

\* variant: the scan does not stop at the first match, the last one stays
findAccountByNameLast(list, nameLower) ==
    LET m == {i \in DOMAIN list : ToLower(list[i].Name) = nameLower}
    IN  IF m = {} THEN {} ELSE {list[CHOOSE i \in m : \A j \in m : j <= i].ID}

\* the id of the first account whose lowered name is nameLower: {} is the nil pointer
findAccountByName(list, nameLower) ==
    LET m == {i \in DOMAIN list : ToLower(list[i].Name) = nameLower}
    IN  IF m = {} THEN {} ELSE {list[Min(m)].ID}

\* variant: only the categories without a parent are searched
findCategoryByTitleTopLevel(list, titleLower) ==
    LET m == {i \in DOMAIN list : list[i].ParentID = {} /\ ToLower(list[i].Title) = titleLower}
    IN  IF m = {} THEN {} ELSE {list[Min(m)].ID}

findCategoryByTitle(list, titleLower) ==
    LET m == {i \in DOMAIN list : ToLower(list[i].Title) = titleLower}
    IN  IF m = {} THEN {} ELSE {list[Min(m)].ID}

\* variant: the amount is sent without its sign
psTxUnsigned(t, categoryID) ==
    [Payee |-> t.Merchant, Amount |-> IF t.Amount # <<>> /\ Head(t.Amount) = "-" THEN Tail(t.Amount) ELSE t.Amount,
     Date |-> t.Date, IsTransfer |-> FALSE, CategoryID |-> categoryID]

\* psTx := &domain.PocketSmithTransaction{...}
psTx(t, categoryID) ==
    [Payee |-> t.Merchant, Amount |-> t.Amount, Date |-> t.Date, IsTransfer |-> FALSE,
     CategoryID |-> categoryID]

\* variant: a transaction without a category title is created without a category
resolveOptionalCategory(p) ==
    /\ pc[p] = "resolve"
    /\ LET accountID == findAccountByName(accounts[p], accountLower(tx[p]))
           categoryID == IF tx[p].Category = "" THEN NoCategoryID
                         ELSE findCategoryByTitle(categories[p], categoryLower(tx[p]))
       IN  IF accountID = {}
           THEN /\ Return(p, LookupError("no transaction account found with name", tx[p].Account))
                /\ UNCHANGED call
           ELSE IF categoryID = {} /\ tx[p].Category # ""
           THEN /\ Return(p, LookupError("no category found with title", tx[p].Category))
                /\ UNCHANGED call
           ELSE /\ call' = [call EXCEPT ![p] =
                              [accountID |-> CHOOSE a \in accountID : TRUE,
                               psTx |-> psTx(tx[p], categoryID)]]
                /\ Goto(p, "CreateTransaction")
                /\ UNCHANGED <<ret, statusCode, result>>
    /\ UNCHANGED <<redis, now, remote, req, op, tx, user, accounts, categories, fetched,
                   obs, posted, prevAcc, served, faults>>

\* variant: a transaction whose category is not found is created without a category
resolveIgnoringCategoryMiss(p) ==
    /\ pc[p] = "resolve"
    /\ LET accountID == findAccountByName(accounts[p], accountLower(tx[p]))
           categoryID == findCategoryByTitle(categories[p], categoryLower(tx[p]))
       IN  IF accountID = {}
           THEN /\ Return(p, LookupError("no transaction account found with name", tx[p].Account))
                /\ UNCHANGED call
           ELSE /\ call' = [call EXCEPT ![p] =
                              [accountID |-> CHOOSE a \in accountID : TRUE,
                               psTx |-> psTx(tx[p], categoryID)]]
                /\ Goto(p, "CreateTransaction")
                /\ UNCHANGED <<ret, statusCode, result>>
    /\ UNCHANGED <<redis, now, remote, req, op, tx, user, accounts, categories, fetched,
                   obs, posted, prevAcc, served, faults>>

\* variant: the category is looked up before the account
resolveCategoryFirst(p) ==
    /\ pc[p] = "resolve"
    /\ LET accountID == findAccountByName(accounts[p], accountLower(tx[p]))
           categoryID == findCategoryByTitle(categories[p], categoryLower(tx[p]))
       IN  IF categoryID = {}
           THEN /\ Return(p, LookupError("no category found with title", tx[p].Category))
                /\ UNCHANGED call
           ELSE IF accountID = {}
           THEN /\ Return(p, LookupError("no transaction account found with name", tx[p].Account))
                /\ UNCHANGED call
           ELSE /\ call' = [call EXCEPT ![p] =
                              [accountID |-> CHOOSE a \in accountID : TRUE,
                               psTx |-> psTx(tx[p], categoryID)]]
                /\ Goto(p, "CreateTransaction")
                /\ UNCHANGED <<ret, statusCode, result>>
    /\ UNCHANGED <<redis, now, remote, req, op, tx, user, accounts, categories, fetched,
                   obs, posted, prevAcc, served, faults>>

resolve(p) ==
    /\ pc[p] = "resolve"
    /\ LET accountID == findAccountByName(accounts[p], accountLower(tx[p]))
           categoryID == findCategoryByTitle(categories[p], categoryLower(tx[p]))
       IN  IF accountID = {}
           THEN /\ Return(p, LookupError("no transaction account found with name", tx[p].Account))
                /\ UNCHANGED call
           ELSE IF categoryID = {}
           THEN /\ Return(p, LookupError("no category found with title", tx[p].Category))
                /\ UNCHANGED call
           ELSE /\ call' = [call EXCEPT ![p] =
                              [accountID |-> CHOOSE a \in accountID : TRUE,
                               psTx |-> psTx(tx[p], categoryID)]]
                /\ Goto(p, "CreateTransaction")
                /\ UNCHANGED <<ret, statusCode, result>>
    /\ UNCHANGED <<redis, now, remote, req, op, tx, user, accounts, categories, fetched,
                   obs, posted, prevAcc, served, faults>>

-----------------------------------------------------------------------------
(* HTTPPocketSmithClient.CreateTransaction *)

CreateResponses ==
    {[fail |-> f, status |-> 0, bad |-> TRUE] : f \in {"send", "read"}}
    \cup {[fail |-> "none", status |-> st, bad |-> FALSE] : st \in {StatusOK, StatusCreated}}
    \cup {[fail |-> "none", status |-> st, bad |-> TRUE] :
            st \in {StatusBadRequest, StatusInternalServerError}}

\* variant: only 200 passes for success
CreateSucceededOnlyOK(resp) == resp.status = StatusOK

\* `resp.StatusCode != http.StatusOK && resp.StatusCode != http.StatusCreated`, negated
CreateSucceeded(resp) == resp.status = StatusOK \/ resp.status = StatusCreated

\* variant: the error of the create call is logged and dropped
CreateTransactionResultDropped(resp) == NoError

\* what CreateTransaction returns for the response, and AddTransaction with it
CreateTransactionResult(resp) ==
    IF resp.fail = "send" THEN Errorf("send request to PocketSmith", 0)
    ELSE IF resp.fail = "read" THEN Errorf("read response from PocketSmith", 0)
    ELSE IF ~CreateSucceeded(resp)
    THEN Errorf("PocketSmith request failed with status", resp.status)
    ELSE NoError

\* the request the client sends and the response it got (history)
Posted(c, resp) ==
    [accountID |-> c.accountID, body |-> MarshalTransaction(c.psTx),
     fail |-> resp.fail, status |-> resp.status]

\* variant: a created transaction drops the cached accounts of the user
CreateTransactionInvalidating(p) ==
    /\ pc[p] = "CreateTransaction"
    /\ \E resp \in Allowed(CreateResponses) :
          /\ Fault(IsFault(resp))
          /\ posted' = [posted EXCEPT ![p] = Append(@, Posted(call[p], resp))]
          /\ Return(p, CreateTransactionResult(resp))
          /\ redis' = IF CreateSucceeded(resp)
                      THEN [redis EXCEPT ![AccountsKey(user[p])] = AbsentEntry(AccountsKey(user[p]))]
                      ELSE redis
    /\ UNCHANGED <<now, remote, req, op, tx, user, accounts, categories, fetched, call,
                   obs, prevAcc, served>>

CreateTransaction(p) ==
    /\ pc[p] = "CreateTransaction"
    /\ \E resp \in Allowed(CreateResponses) :
          /\ Fault(IsFault(resp))
          /\ posted' = [posted EXCEPT ![p] = Append(@, Posted(call[p], resp))]
          /\ Return(p, CreateTransactionResult(resp))
    /\ UNCHANGED <<redis, now, remote, req, op, tx, user, accounts, categories, fetched, call,
                   obs, prevAcc, served>>

-----
(* The request is over: its locals go away.  When its accounts fetch wrote *)
(* the cache, the write is kept for the next request of the process.       *)

Finish(p) ==
    /\ pc[p] = "done"
    /\ Goto(p, "idle")
    /\ prevAcc' = [prevAcc EXCEPT ![p] =
          LET o == obs[p]["accounts"]
          IN  IF o.done /\ o.ok /\ o.writes = 2
              THEN [valid |-> TRUE, u |-> user[p], net |-> o.net, wat |-> o.wat]
              ELSE NoPrev]
    /\ req' = [req EXCEPT ![p] = NoReq]
    /\ op' = [op EXCEPT ![p] = "none"]
    /\ tx' = [tx EXCEPT ![p] = NoTx]
    /\ user' = [user EXCEPT ![p] = 0]
    /\ accounts' = [accounts EXCEPT ![p] = <<>>]
    /\ categories' = [categories EXCEPT ![p] = <<>>]
    /\ fetched' = [fetched EXCEPT ![p] = <<>>]
    /\ call' = [call EXCEPT ![p] = NoCall]
    /\ ret' = [ret EXCEPT ![p] = NoError]
    /\ statusCode' = [statusCode EXCEPT ![p] = 0]
    /\ result' = [result EXCEPT ![p] = NoResult]
    /\ obs' = [obs EXCEPT ![p] = [k \in Kinds |-> NoObs]]
    /\ posted' = [posted EXCEPT ![p] = <<>>]
    /\ UNCHANGED <<redis, now, remote, served, faults>>

-----------------------------------------------------------------------------
(* Time passes on the Redis server: the keys whose expiry is reached go *)

Advance ==
    /\ now < MaxTicks * Tick
    /\ now' = now + Tick
    /\ redis' = Expire(redis, now')
    /\ UNCHANGED <<remote, pc, req, op, tx, user, accounts, categories, fetched, call,
                   ret, statusCode, result, obs, posted, prevAcc, served, faults>>

-----------------------------------------------------------------------------

\* the steps of the request p once it has started
Run(p) ==
    \/ GetMe(p)
    \/ GetMe_send(p)
    \/ SetUserID(p)
    \/ SetUserID_expire(p)
    \/ GetTransactionAccounts(p)
    \/ GetTransactionAccounts_send(p)
    \/ SetTransactionAccounts(p)
    \/ SetTransactionAccounts_expire(p)
    \/ GetCategories(p)
    \/ GetCategories_send(p)
    \/ SetCategories(p)
    \/ SetCategories_expire(p)
    \/ resolve(p)
    \/ CreateTransaction(p)
    \/ Finish(p)

\* one step of the request p
Step(p) == AddTransaction(p) \/ Run(p)

\* requests one after the other
Next == Step("r1") \/ Advance

Spec == Init /\ [][Next]_vars

\* the handler in front of the service, on every request
NextHandler == Handle("r1") \/ Run("r1") \/ Advance

InitHandler == StartOn(EmptyStore, HandlerLedgers)

SpecHandler == InitHandler /\ [][NextHandler]_vars

\* the service called by any caller of its interface
NextService == AddTransactionDirect("r1") \/ Run("r1") \/ Advance

SpecService == Init /\ [][NextService]_vars

SpecPre == InitPre /\ [][Next]_vars

\* the PocketSmith API goes down and stays down
Outage ==
    /\ remote.up
    /\ remote' = [remote EXCEPT !.up = FALSE]
    /\ UNCHANGED <<redis, now, pc, req, op, tx, user, accounts, categories, fetched, call,
                   ret, statusCode, result, obs, posted, prevAcc, served, faults>>

\* requests one after the other against an API that may go down
NextOutage == Step("r1") \/ Advance \/ Outage

SpecOutage == Init /\ [][NextOutage]_vars

\* an account is added at PocketSmith
RemoteChange ==
    /\ \A i \in DOMAIN remote.accounts : remote.accounts[i] # A3
    /\ remote' = [remote EXCEPT !.accounts = Append(@, A3)]
    /\ UNCHANGED <<redis, now, pc, req, op, tx, user, accounts, categories, fetched, call,
                   ret, statusCode, result, obs, posted, prevAcc, served, faults>>

StaleLedgers == {l \in Ledgers : l.accounts = <<A1>>}

\* requests one after the other against an API whose accounts change
NextStale == Step("r1") \/ Advance \/ RemoteChange

InitStale == StartOn(EmptyStore, StaleLedgers)

SpecStale == InitStale /\ [][NextStale]_vars

\* the handler on every request, every call of a request returning in the end
LiveLedgers == {l \in Ledgers : l.categories = <<K1>>}

NextLive == Handle("r1") \/ Run("r1")

InitLive == StartOn(EmptyStore, LiveLedgers)

SpecLive == InitLive /\ [][NextLive]_vars /\ WF_vars(Run("r1"))

\* requests side by side: each inbound request is handled independently,
\* the requests share the cache store only
ConcTxs == {t \in Txs : t.Account = "USD General" /\ t.Category = "Groceries"}

ConcLedgers == {l \in Ledgers : l.user = 7}

NextConc == \E p \in Procs : Begin(p, ConcTxs) \/ Run(p)

InitConc == StartOn(EmptyStore, ConcLedgers)

SpecConc == InitConc /\ [][NextConc]_vars

TypeOK ==
    /\ now \in 0..(MaxTicks * Tick)
    /\ served \in 0..MaxRequests
    /\ faults \in 0..MaxFaults
    /\ \A p \in Procs : statusCode[p] \in {0, StatusOK, StatusBadRequest, StatusForbidden,
                                             StatusNotFound, StatusMethodNotAllowed,
                                             StatusUnprocessableEntity, StatusInternalServerError}
    /\ \A p \in Procs : ret[p].type \in {"nil", "*fmt.wrapError", "*errors.errorString", "*lookupError"}

-----------------------------------------------------------------------------
(* Properties *)

ReadLabel(k) ==
    CASE k = "me" -> "GetMe"
      [] k = "accounts" -> "GetTransactionAccounts"
      [] k = "categories" -> "GetCategories"

SendLabel(k) ==
    CASE k = "me" -> "GetMe_send"
      [] k = "accounts" -> "GetTransactionAccounts_send"
      [] k = "categories" -> "GetCategories_send"

\* what the read operation k of request p handed to the service
Returned(p, k) ==
    CASE k = "me" -> user[p]
      [] k = "accounts" -> accounts[p]
      [] k = "categories" -> categories[p]

\* what a healthy read of the cache yields for the read operation k of request p
Cached(p, k) ==
    CASE k = "me" -> RepoGetUserID(redis, FALSE)
      [] k = "accounts" -> RepoGetTransactionAccounts(redis, user[p], FALSE)
      [] k = "categories" -> RepoGetCategories(redis, user[p], FALSE)

\* the causes a failed remote call gives to the error of a read operation
RemoteCauses ==
    {"send request to PocketSmith", "read response from PocketSmith",
     "PocketSmith request failed with status", "unmarshal response"}

Failed(p, k) == obs[p][k].done /\ ~obs[p][k].ok

\* C1: a read operation whose cache read succeeds returns the cached value
\* at once: it issues no HTTP call and no cache write, and it has issued none
\* whenever it is seen to have hit.
C1_HitReturnsCachedWithoutCall ==
    /\ [](\A p \in Procs : \A k \in Kinds :
            obs[p][k].hit =>
               /\ obs[p][k].done /\ obs[p][k].ok
               /\ obs[p][k].net = 0 /\ obs[p][k].writes = 0)
    /\ [][\A p \in Procs : \A k \in Kinds :
            (pc[p] = ReadLabel(k) /\ obs'[p][k].hit) =>
               /\ ~Cached(p, k).err
               /\ Returned(p, k)' = Cached(p, k).val
               /\ pc'[p] # SendLabel(k)
               /\ redis' = redis]_vars

C1_Witness ==
    /\ \A k \in Kinds : obs["r1"][k].hit /\ obs["r1"][k].net = 0
    /\ Len(accounts["r1"]) = 2
    /\ accounts["r1"] = remote.accounts

\* C2: when an accounts fetch missed, fetched and wrote the cache (HSET and
\* EXPIRE took effect), the next accounts fetch for the same user whose cache
\* read comes before the expiry and meets no store error is a hit: it issues
\* no HTTP call, so the two fetches together issue exactly one.
C2_SecondFetchServedFromCache ==
    \A p \in Procs :
       LET o == obs[p]["accounts"]
           v == prevAcc[p]
       IN  (/\ v.valid /\ v.u = user[p]
            /\ o.started /\ o.why # "store"
            /\ o.rat < v.wat + cacheTTL)
           => /\ o.hit /\ o.done /\ o.ok
              /\ v.net + o.net = 1

C2_Witness ==
    /\ prevAcc["r1"].valid /\ prevAcc["r1"].net = 1
    /\ obs["r1"]["accounts"].hit /\ obs["r1"]["accounts"].net = 0
    /\ obs["r1"]["accounts"].rat > prevAcc["r1"].wat

\* C3: a read operation whose remote call answers with a status other than
\* 200 returns an error that reports the status and issues no cache write:
\* the step that receives the response leaves the store as it was, and the
\* operation has returned, so no write follows.
C3_NonOKStatusNoCacheWrite ==
    /\ [](\A p \in Procs : \A k \in Kinds :
            (obs[p][k].net > 0 /\ obs[p][k].status \in ErrorStatuses) =>
               /\ Failed(p, k)
               /\ obs[p][k].writes = 0 /\ ~obs[p][k].wfail
               /\ pc[p] = "done"
               /\ ret[p].type = "*fmt.wrapError" /\ ret[p].status = obs[p][k].status)
    /\ [][\A p \in Procs : \A k \in Kinds :
            (pc[p] = SendLabel(k) /\ obs'[p][k].status \in ErrorStatuses) =>
               redis' = redis]_vars

C3_Witness ==
    /\ obs["r1"]["accounts"].status = StatusCreated
    /\ Failed("r1", "accounts")
    /\ ~redis[AccountsKey(user["r1"])].present

\* C4: a cache read that fails, whatever the failure (store error, key
\* absent or expired, no "data" field, undecodable payload), is a miss: the
\* operation goes on to the remote call, and it returns an error only when
\* the remote call failed, data only when the remote call answered 200.
C4_CacheReadFailureIsMiss ==
    \A p \in Procs : \A k \in Kinds :
       LET o == obs[p][k]
       IN  (o.started /\ o.why # "none") =>
              /\ ~o.hit
              /\ IF o.net = 0
                 THEN pc[p] = SendLabel(k) /\ ~o.done /\ ret[p] = NoError
                 ELSE /\ o.net = 1
                      /\ (o.done /\ ~o.ok) =>
                            (pc[p] = "done" /\ ret[p].arg \in RemoteCauses)
                      /\ (o.done /\ o.ok) => o.status = StatusOK

C4_Witness ==
    /\ obs["r1"]["me"].why = "decode" /\ obs["r1"]["me"].ok
    /\ obs["r1"]["accounts"].why = "nodata" /\ obs["r1"]["accounts"].ok
    /\ obs["r1"]["categories"].why = "decode" /\ obs["r1"]["categories"].ok

\* C5: when the remote call of a read operation answered 200 and a command
\* of the following cache write fails, the operation returns the data it
\* fetched and no error, and the request goes on.
C5_CacheWriteBestEffort ==
    /\ [](\A p \in Procs : \A k \in Kinds :
            obs[p][k].wfail =>
               /\ obs[p][k].status = StatusOK
               /\ obs[p][k].done /\ obs[p][k].ok)
    /\ [][\A p \in Procs : \A k \in Kinds :
            (~obs[p][k].wfail /\ obs'[p][k].wfail) =>
               /\ Returned(p, k)' = fetched[p]
               /\ ret'[p] = NoError
               /\ pc'[p] # "done"]_vars

C5_Witness ==
    /\ obs["r1"]["accounts"].wfail /\ obs["r1"]["accounts"].writes = 1
    /\ accounts["r1"] = remote.accounts /\ Len(accounts["r1"]) = 2
    /\ pc["r1"] = "done" /\ ret["r1"] = NoError

\* C6: outside a write in flight, a collection key that holds a payload
\* carries an expiry of at most cacheTTL from now; in particular a write
\* whose EXPIRE command failed leaves no payload behind.
C6_CollectionPayloadCarriesExpiry ==
    \A k \in HashKeys :
       (/\ \A p \in Procs : pc[p] \notin {"SetTransactionAccounts_expire", "SetCategories_expire"}
        /\ redis[k].present
        /\ "data" \in DOMAIN redis[k].val)
       => /\ redis[k].exp.has
          /\ redis[k].exp.at <= now + cacheTTL

\* C7: an accounts entry written with EXPIRE cacheTTL and read when cacheTTL
\* or more has elapsed is a miss: the fetch goes on to the remote call and
\* its outcome is the remote call's, never an error of the expiry.
C7_ExpiredEntryIsMiss ==
    \A p \in Procs :
       LET o == obs[p]["accounts"]
           v == prevAcc[p]
       IN  (/\ v.valid /\ v.u = user[p]
            /\ o.started
            /\ o.rat >= v.wat + cacheTTL)
           => /\ ~o.hit
              /\ o.why \in {"absent", "store"}
              /\ IF o.net = 0
                 THEN pc[p] = SendLabel("accounts") /\ ~o.done /\ ret[p] = NoError
                 ELSE /\ o.net = 1
                      /\ (o.done /\ ~o.ok) =>
                            (pc[p] = "done" /\ ret[p].arg \in RemoteCauses)
                      /\ (o.done /\ o.ok) => o.status = StatusOK

C7_Witness ==
    /\ prevAcc["r1"].valid
    /\ obs["r1"]["accounts"].rat >= prevAcc["r1"].wat + cacheTTL
    /\ obs["r1"]["accounts"].why = "absent"
    /\ obs["r1"]["accounts"].ok /\ obs["r1"]["accounts"].net = 1
    /\ accounts["r1"] = remote.accounts

\* C8: once SetTransactionAccounts has stored a list, a healthy
\* GetTransactionAccounts for the same user returns that list, equal element
\* by element and in the same order, right after the HSET and for as long as
\* the expiry set by the write is not reached; the same for the categories.
C8_RoundTrip ==
    /\ [](\A p \in Procs : \A k \in {"accounts", "categories"} :
            (obs[p][k].done /\ obs[p][k].writes = 2 /\ now < obs[p][k].wat + cacheTTL) =>
               /\ ~Cached(p, k).err
               /\ Len(Cached(p, k).val) = Len(Returned(p, k))
               /\ \A i \in DOMAIN Returned(p, k) : Cached(p, k).val[i] = Returned(p, k)[i])
    /\ [][\A p \in Procs :
            /\ (pc[p] = "SetTransactionAccounts" /\ pc'[p] = "SetTransactionAccounts_expire") =>
                  RepoGetTransactionAccounts(redis', user[p], FALSE) = Hit(fetched[p])
            /\ (pc[p] = "SetCategories" /\ pc'[p] = "SetCategories_expire") =>
                  RepoGetCategories(redis', user[p], FALSE) = Hit(fetched[p])]_vars

C8_Witness ==
    /\ obs["r1"]["accounts"].writes = 2 /\ obs["r1"]["categories"].writes = 2
    /\ now < obs["r1"]["accounts"].wat + cacheTTL
    /\ now > obs["r1"]["categories"].wat
    /\ accounts["r1"] = <<A2, A1>>
    /\ categories["r1"] = <<K2, K1>>
    /\ Cached("r1", "accounts").val = <<A2, A1>>
    /\ Cached("r1", "categories").val = <<K2, K1>>

C10_OneFetchFails ==
    \A p \in Procs :
       (Failed(p, "accounts") # Failed(p, "categories")) =>
          /\ pc[p] = "done"
          /\ ret[p].type = "*fmt.wrapError"
          /\ ~IsLookupError(ret[p])
          /\ ret[p].msg = IF Failed(p, "accounts")
                          THEN "failed to get transaction accounts"
                          ELSE "failed to get categories"
          /\ ret[p].arg \in RemoteCauses
          /\ posted[p] = <<>>
          /\ call[p] = NoCall

C10_Witness ==
    /\ Failed("r1", "categories")
    /\ obs["r1"]["accounts"].ok
    /\ findAccountByName(accounts["r1"], ToLower(tx["r1"].Account)) # {}
    /\ findCategoryByTitle(remote.categories, ToLower(tx["r1"].Category)) # {}
    /\ pc["r1"] = "done"

-----------------------------------------------------------------------------
(* Names that differ only in letter case, told apart from strings.ToLower *)

Spellings ==
    {{"USD General", "USD GENERAL", "usd general"}, {"EUR General", "eur general"},
     {"Groceries", "groceries", "GROCERIES"}, {"Eating out", "eating out"}}

SameName(a, b) == a = b \/ \E c \in Spellings : a \in c /\ b \in c

\* the member named key of the JSON object g, def when it has none
Field(g, key, def) ==
    LET at == {i \in 2..(Len(g) - 1) : i % 2 = 0 /\ g[i] = key}
    IN  IF at = {} THEN def ELSE g[Min(at) + 1]

\* the request p has resolved its names or has failed to
Resolved(p) ==
    /\ obs[p]["categories"].done /\ obs[p]["categories"].ok
    /\ pc[p] \in {"CreateTransaction", "done"}

\* the outcome of the account resolution of the request p: the id, {} for a lookup error
AccountOutcome(p) ==
    IF call[p] # NoCall THEN {call[p].accountID}
    ELSE IF ret[p].msg = "no transaction account found with name" THEN {}
    ELSE {0}

\* C11: when GetMe fails, AddTransaction returns that error, wrapped and not
\* a lookup error, and the request ends there: no accounts fetch and no
\* categories fetch is started (no cache read, no HTTP call), and no create
\* call is prepared or made.
C11_GetMeFailureIsFatal ==
    \A p \in Procs :
       Failed(p, "me") =>
          /\ pc[p] = "done"
          /\ ret[p].type = "*fmt.wrapError"
          /\ ret[p].msg = "failed to get user info"
          /\ ret[p].arg \in RemoteCauses
          /\ (ret[p].arg = "PocketSmith request failed with status") =>
                (ret[p].status = obs[p]["me"].status /\ ret[p].status # StatusOK)
          /\ \A k \in {"accounts", "categories"} : obs[p][k] = NoObs
          /\ posted[p] = <<>>
          /\ call[p] = NoCall

C11_Witness ==
    /\ Failed("r1", "me")
    /\ obs["r1"]["me"].status = StatusInternalServerError
    /\ ret["r1"].status = StatusInternalServerError
    /\ remote.accounts # <<>>

\* C12: the account lookup does not see letter case: whatever the cached or
\* fetched account list, the outcome of the request (the account id of the
\* create call, or the account lookup error) is the outcome the resolution
\* gives for every other spelling of the requested name.
C12_AccountMatchIgnoresCase ==
    \A p \in Procs :
       (Resolved(p) /\ AccountOutcome(p) # {0}) =>
          \A n \in UNION Spellings :
             SameName(n, tx[p].Account) =>
                findAccountByName(accounts[p], accountLower([tx[p] EXCEPT !.Account = n]))
                   = AccountOutcome(p)

C12_Witness ==
    /\ Resolved("r1")
    /\ tx["r1"].Account = "USD GENERAL"
    /\ accounts["r1"] = <<A2, A1>>
    /\ call["r1"].accountID = 2

\* C13: when no name of the fetched accounts equals the requested name up
\* to letter case, AddTransaction returns a lookup error that names the value
\* as the caller wrote it, no create call is prepared or made, and the handler
\* answers 400.
C13_AccountLookupMiss ==
    \A p \in Procs :
       (Resolved(p) /\ \A i \in DOMAIN accounts[p] : ~SameName(accounts[p][i].Name, tx[p].Account))
       => /\ pc[p] = "done"
          /\ IsLookupError(ret[p])
          /\ ret[p].msg = "no transaction account found with name"
          /\ ret[p].arg = tx[p].Account
          /\ call[p] = NoCall /\ posted[p] = <<>>
          /\ statusCode[p] = StatusBadRequest

C13_Witness ==
    /\ Resolved("r1")
    /\ accounts["r1"] = <<A1>>
    /\ tx["r1"].Account = "EUR General"
    /\ ret["r1"].arg = "EUR General"
    /\ statusCode["r1"] = StatusBadRequest

AccountMatches(list, name) == {i \in DOMAIN list : SameName(list[i].Name, name)}
CategoryMatches(list, title) == {i \in DOMAIN list : SameName(list[i].Title, title)}

C16_LookupErrorsDistinguished ==
    \A p \in Procs :
       pc[p] = "done" =>
          /\ IsLookupError(ret[p]) <=>
                /\ \A k \in Kinds : obs[p][k].done /\ obs[p][k].ok
                /\ \/ AccountMatches(accounts[p], tx[p].Account) = {}
                   \/ CategoryMatches(categories[p], tx[p].Category) = {}
          /\ (\E k \in Kinds : Failed(p, k)) => (ret[p] # NoError /\ ~IsLookupError(ret[p]))
          /\ posted[p] # <<>> => ~IsLookupError(ret[p])
          /\ statusCode[p] = IF ret[p] = NoError THEN StatusOK
                             ELSE IF ret[p].type = "*lookupError" THEN StatusBadRequest
                             ELSE StatusInternalServerError

C16_Witness ==
    /\ pc["r1"] = "done"
    /\ posted["r1"] # <<>>
    /\ ret["r1"].status = StatusBadRequest
    /\ ~IsLookupError(ret["r1"])
    /\ statusCode["r1"] = StatusInternalServerError

\* C17: when the account and the category both resolve, AddTransaction
\* issues one create call, on the id of the resolved account, whose body has
\* payee equal to the merchant, amount and date as given, is_transfer false
\* and category_id equal to the id of the resolved category.
C17_CreateCallCarriesRequest ==
    \A p \in Procs :
       (/\ pc[p] = "done" /\ Resolved(p)
        /\ AccountMatches(accounts[p], tx[p].Account) # {}
        /\ CategoryMatches(categories[p], tx[p].Category) # {})
       => /\ Len(posted[p]) = 1
          /\ LET c == posted[p][1]
                 a == accounts[p][Min(AccountMatches(accounts[p], tx[p].Account))]
                 k == categories[p][Min(CategoryMatches(categories[p], tx[p].Category))]
             IN  /\ c.accountID = a.ID
                 /\ Field(c.body, "payee", "none") = tx[p].Merchant
                 /\ Field(c.body, "amount", "none") = tx[p].Amount
                 /\ Field(c.body, "date", "none") = tx[p].Date
                 /\ Field(c.body, "is_transfer", "none") = "false"
                 /\ Field(c.body, "category_id", "none") = Itoa(k.ID)

C17_Witness ==
    /\ pc["r1"] = "done"
    /\ tx["r1"].Account = "USD General" /\ tx["r1"].Category = "Groceries"
    /\ accounts["r1"] = <<A1>> /\ categories["r1"] = <<K1>>
    /\ posted["r1"] = << [accountID |-> 1,
                          body |-> <<"{", "payee", "Store", "amount", Amount4250,
                                     "date", "2025-01-13", "is_transfer", "false",
                                     "category_id", "4", "}">>,
                          fail |-> "none", status |-> StatusCreated] >>

\* C18: the step that makes the create call, whatever its outcome, leaves
\* the store as it was and issues no cache command: the history of the cache
\* reads and writes of the request does not change.
C18_CreateLeavesCacheAlone ==
    [][\A p \in Procs :
         (pc[p] = "CreateTransaction" /\ posted'[p] # posted[p]) =>
            /\ redis' = redis
            /\ obs' = obs]_vars

C18_Witness ==
    /\ pc["r1"] = "done"
    /\ posted["r1"] # <<>> /\ posted["r1"][1].status = StatusOK
    /\ "data" \in DOMAIN redis[AccountsKey(user["r1"])].val
    /\ "data" \in DOMAIN redis[CategoriesKey(user["r1"])].val
    /\ redis[UserIDKey].present

\* C19: the create call succeeds exactly when the response came and its
\* status is 200 or 201; a transport failure, an unreadable body and every
\* other status yield an error, which reports the status when there is one.
C19_CreateSucceedsOn200Or201 ==
    \A p \in Procs :
       (pc[p] = "done" /\ posted[p] # <<>>) =>
          LET c == posted[p][Len(posted[p])]
          IN  /\ ret[p] = NoError <=>
                   (c.fail = "none" /\ c.status \in {StatusOK, StatusCreated})
              /\ (c.fail = "none" /\ c.status \notin {StatusOK, StatusCreated}) =>
                    /\ ret[p].msg = "PocketSmith request failed with status"
                    /\ ret[p].status = c.status
              /\ c.fail = "send" => ret[p].msg = "send request to PocketSmith"
              /\ c.fail = "read" => ret[p].msg = "read response from PocketSmith"

C19_Witness ==
    /\ pc["r1"] = "done"
    /\ posted["r1"] # <<>> /\ posted["r1"][1].status = StatusCreated
    /\ ret["r1"] = NoError

\* C20: once the account and the category are resolved, AddTransaction makes
\* the create call exactly once and returns what the call returned, as it
\* is: success exactly when the call succeeded, and otherwise the client's
\* error itself, not wrapped and not a lookup error.
C20_CreateOnceResultVerbatim ==
    /\ [](\A p \in Procs :
            /\ Len(posted[p]) <= 1
            /\ pc[p] = "CreateTransaction" => posted[p] = <<>>
            /\ (pc[p] = "done" /\ call[p] # NoCall) =>
                  /\ Len(posted[p]) = 1
                  /\ ret[p] = NoError <=>
                        posted[p][1].status \in {StatusOK, StatusCreated}
                  /\ ret[p] # NoError =>
                        /\ ret[p].arg = ""
                        /\ ret[p].msg \in {"send request to PocketSmith",
                                           "read response from PocketSmith",
                                           "PocketSmith request failed with status"}
                        /\ ret[p].status = posted[p][1].status)
    /\ [][\A p \in Procs :
            posted'[p] # posted[p] =>
               \/ pc[p] = "CreateTransaction" /\ pc'[p] = "done"
                     /\ Len(posted'[p]) = Len(posted[p]) + 1
               \/ pc[p] = "done" /\ posted'[p] = <<>>]_vars

C20_Witness ==
    /\ pc["r1"] = "done"
    /\ Len(posted["r1"]) = 1
    /\ posted["r1"][1].status = StatusInternalServerError
    /\ ret["r1"].type = "*errors.errorString"
    /\ ret["r1"].status = StatusInternalServerError

-----------------------------------------------------------------------------
(* The boundary: what the handler answers before the service is called.    *)

\* the request of p was answered without the service: no operation was
\* called, so no cache read, no remote call and no create call was made
NotInvoked(p) ==
    /\ pc[p] = "done"
    /\ op[p] = "none"
    /\ \A k \in Kinds : obs[p][k] = NoObs
    /\ call[p] = NoCall
    /\ posted[p] = <<>>

\* the four endpoints of the handler
OnEndpoint(r) ==
    \/ r.path = AppendPath /\ r.method = "POST"
    \/ r.path \in {CategoriesPath, AccountsPath, ShortcutEntitiesPath} /\ r.method = "GET"

\* the Authorization header is missing, or is a Bearer header whose token is not the key
BadToken(r) ==
    \/ r.authorization = <<>>
    \/ /\ Head(r.authorization) = "Bearer "
       /\ Tail(r.authorization) # clientAuthKey

\* the separators of a value, commas and dots alike
Separators(v) == Cardinality({i \in DOMAIN v : v[i] \in {",", "."}})

\* an authenticated POST to the add-transaction endpoint carrying a JSON-RPC
\* call of transactions.add with parameters
AddCall(r) ==
    /\ r.method = "POST" /\ r.path = AppendPath /\ r.contentType = "application/json"
    /\ r.authorization = <<"Bearer ">> \o clientAuthKey
    /\ r.body.json /\ r.body.method = "transactions.add" /\ r.body.hasParams

\* C23 (as claimed): a request to the add-transaction endpoint whose HTTP
\* method is not POST is answered 405 and never reaches the service.
C23_NonPostIs405 ==
    \A p \in Procs :
        (pc[p] # "idle" /\ req[p].path = AppendPath /\ req[p].method # "POST")
            => statusCode[p] = StatusMethodNotAllowed /\ NotInvoked(p)

\* C24 (as claimed): a request to one of the four endpoints whose bearer
\* token is missing or is not the client key is answered 403 and never
\* invokes the service.
C24_BadTokenIs403 ==
    \A p \in Procs :
        (pc[p] # "idle" /\ OnEndpoint(req[p]) /\ BadToken(req[p]))
            => statusCode[p] = StatusForbidden /\ NotInvoked(p)

\* C24 (amended): such a request never invokes the service, so it causes no
\* cache access and no remote call, and it is answered 403, except that on
\* the add-transaction endpoint a Content-Type other than application/json
\* is answered 400 first.
C24_BadTokenNeverServed ==
    \A p \in Procs :
        (pc[p] # "idle" /\ OnEndpoint(req[p]) /\ BadToken(req[p]))
            => /\ NotInvoked(p)
               /\ statusCode[p] =
                     IF req[p].path = AppendPath /\ req[p].contentType # "application/json"
                     THEN StatusBadRequest ELSE StatusForbidden

C24_Witness ==
    /\ pc["r1"] = "done"
    /\ req["r1"].path = CategoriesPath /\ req["r1"].method = "GET"
    /\ req["r1"].authorization = <<"Bearer ", "wrong">>
    /\ statusCode["r1"] = StatusForbidden
    /\ served = 2
    /\ redis[UserIDKey].present

\* C25: the handler folds every comma of the value to a dot; a value with
\* more than one separator is answered 422 without the service; otherwise
\* the amount handed to AddTransaction is the value with its commas
\* replaced, with at most one dot and no comma.
C25_AmountNormalized ==
    \A p \in Procs :
        (/\ pc[p] # "idle" /\ AddCall(req[p])
         /\ \A f \in {"currency", "category", "merchant", "date"} : req[p].body.params[f] # ""
         /\ req[p].body.params.value # <<>>)
        => LET value == req[p].body.params.value
           IN  IF Separators(value) > 1
               THEN statusCode[p] = StatusUnprocessableEntity /\ NotInvoked(p)
               ELSE /\ op[p] = "AddTransaction"
                    /\ Len(tx[p].Amount) = Len(value)
                    /\ \A i \in DOMAIN value :
                          tx[p].Amount[i] = IF value[i] = "," THEN "." ELSE value[i]
                    /\ Cardinality({i \in DOMAIN tx[p].Amount : tx[p].Amount[i] = "."}) <= 1
                    /\ \A i \in DOMAIN tx[p].Amount : tx[p].Amount[i] # ","

C25_Witness ==
    /\ pc["r1"] = "done"
    /\ statusCode["r1"] = StatusOK
    /\ req["r1"].body.params.value = <<"-", "4", "2", ",", "5", "0">>
    /\ tx["r1"].Amount = <<"-", "4", "2", ".", "5", "0">>
    /\ Len(posted["r1"]) = 1

\* C26 (as claimed): an authenticated transactions.add call with the
\* documented parameters account, category, merchant, value and date, all
\* non-empty, reaches AddTransaction with the account name taken from the
\* account parameter; when one of the five is missing the answer is 400 and
\* the service is not invoked.
C26_DocumentedRequestAccepted ==
    \A p \in Procs :
        (pc[p] # "idle" /\ AddCall(req[p]))
        => LET q == req[p].body.params
               complete == /\ \A f \in {"account", "category", "merchant", "date"} : q[f] # ""
                           /\ q.value # <<>>
           IN  /\ (complete /\ Separators(q.value) <= 1)
                     => op[p] = "AddTransaction" /\ tx[p].Account = q.account
               /\ ~complete => statusCode[p] = StatusBadRequest /\ NotInvoked(p)

\* alphabetical order, letter case aside, on the names the model uses
Alphabetical ==
    <<{"Eating out", "eating out"}, {"EUR General", "eur general"},
      {"Groceries", "groceries", "GROCERIES"}, {"USD General", "USD GENERAL", "usd general"}>>

Place(name) == CHOOSE i \in DOMAIN Alphabetical : name \in Alphabetical[i]

InOrder(names) == \A i, j \in DOMAIN names : i < j => Place(names[i]) <= Place(names[j])

\* C27 (as claimed): every collection the read path stored in the cache is
\* in alphabetical order.
C27_CachedCollectionsSorted ==
    \A u \in UserIDs :
        LET a == RepoGetTransactionAccounts(redis, u, FALSE)
            c == RepoGetCategories(redis, u, FALSE)
        IN  /\ ~a.err => InOrder([i \in DOMAIN a.val |-> a.val[i].Name])
            /\ ~c.err => InOrder([i \in DOMAIN c.val |-> c.val[i].Title])

\* C28: GetCategories of the service returns the titles of the fetched
\* categories, each as often as it was fetched, in non-decreasing order.
C28_CategoriesSortedAscending ==
    \A p \in Procs :
        (op[p] = "GetCategories" /\ pc[p] = "done" /\ ret[p] = NoError)
        => /\ statusCode[p] = StatusOK
           /\ Len(result[p]) = Len(categories[p])
           /\ \A t \in {categories[p][i].Title : i \in DOMAIN categories[p]} :
                 Cardinality({i \in DOMAIN result[p] : result[p][i] = t})
                    = Cardinality({i \in DOMAIN categories[p] : categories[p][i].Title = t})
           /\ \A i, j \in DOMAIN result[p] : i < j => Rank(result[p][i]) <= Rank(result[p][j])

C28_Witness ==
    /\ pc["r1"] = "done"
    /\ op["r1"] = "GetCategories"
    /\ categories["r1"] = <<K1, K3, K4>>
    /\ result["r1"] = <<"Eating out", "Eating out", "Groceries">>

-----------------------------------------------------------------------------
(* Retries and ties. *)

\* the message the service puts in front of the error of the read operation k
ReadMessage(k) ==
    CASE k = "me" -> "failed to get user info"
      [] k = "accounts" -> "failed to get transaction accounts"
      [] k = "categories" -> "failed to get categories"

\* C21: within one AddTransaction request at most one HTTP call is issued
\* for each of /me, the accounts, the categories and the create call; a
\* failed call ends the request with its error, and no HTTP call of the same
\* kind follows an earlier one.
C21_NoRetries ==
    /\ [](\A p \in Procs :
            /\ \A k \in Kinds :
                  /\ obs[p][k].net <= 1
                  /\ (obs[p][k].net = 1 /\ Failed(p, k)) =>
                        /\ pc[p] = "done"
                        /\ ret[p].msg = ReadMessage(k)
                        /\ ret[p].arg \in RemoteCauses
            /\ Len(posted[p]) <= 1
            /\ (Len(posted[p]) = 1 /\ ~(posted[p][1].fail = "none" /\ CreateSucceeded(posted[p][1]))) =>
                  pc[p] = "done" /\ ret[p] # NoError)
    /\ [][\A p \in Procs :
            /\ \A k \in Kinds :
                  obs'[p][k].net > obs[p][k].net => obs[p][k].net = 0 /\ pc[p] = SendLabel(k)
            /\ Len(posted'[p]) > Len(posted[p]) => posted[p] = <<>>]_vars

C21_Witness ==
    /\ pc["r1"] = "done"
    /\ obs["r1"]["me"].net = 1 /\ obs["r1"]["me"].ok
    /\ obs["r1"]["accounts"].net = 1 /\ Failed("r1", "accounts")
    /\ obs["r1"]["accounts"].status = StatusInternalServerError
    /\ ret["r1"].msg = "failed to get transaction accounts"
    /\ obs["r1"]["categories"] = NoObs
    /\ posted["r1"] = <<>>

\* C29: when several accounts of the fetched list have the name asked for,
\* letter case aside, the create call goes to the id of the one that comes
\* first in the list.
C29_FirstMatchWins ==
    \A p \in Procs :
        (call[p] # NoCall /\ Cardinality(AccountMatches(accounts[p], tx[p].Account)) >= 2)
        => LET first == CHOOSE i \in AccountMatches(accounts[p], tx[p].Account) :
                           \A j \in AccountMatches(accounts[p], tx[p].Account) : i <= j
           IN  /\ call[p].accountID = accounts[p][first].ID
               /\ \A n \in DOMAIN posted[p] : posted[p][n].accountID = accounts[p][first].ID

C29_Witness ==
    /\ pc["r1"] = "done"
    /\ accounts["r1"] = <<A2, A1>>
    /\ tx["r1"].Account = "USD General"
    /\ Len(posted["r1"]) = 1
    /\ posted["r1"][1].accountID = 2

-----------------------------------------------------------------------------
(* Requests side by side. *)

\* the collection k as the remote API holds it
Snapshot(k) == IF k = "accounts" THEN remote.accounts ELSE remote.categories

\* C22: two requests running side by side on an empty cache may both miss,
\* both fetch and both write; each issues at most one HTTP call per
\* collection, each HSET leaves exactly the list of its writer in the
\* cache, and once both requests are done a collection that was written is
\* read back from the cache as the complete list of the remote API.
C22_RedundantFetchHarmless ==
    /\ [](\A p \in Procs : \A k \in {"accounts", "categories"} :
            /\ obs[p][k].net <= 1
            /\ ((\A q \in Procs : pc[q] \in {"idle", "done"}) /\ obs[p][k].writes >= 1) =>
                  Cached(p, k) = Hit(Snapshot(k)))
    /\ [][\A p \in Procs :
            /\ (pc[p] = "SetTransactionAccounts" /\ pc'[p] = "SetTransactionAccounts_expire") =>
                  RepoGetTransactionAccounts(redis', user[p], FALSE) = Hit(fetched[p])
            /\ (pc[p] = "SetCategories" /\ pc'[p] = "SetCategories_expire") =>
                  RepoGetCategories(redis', user[p], FALSE) = Hit(fetched[p])]_vars

C22_Witness ==
    /\ \A p \in Procs :
          /\ pc[p] = "done"
          /\ user[p] = 7
          /\ obs[p]["accounts"].why = "absent"
          /\ obs[p]["accounts"].net = 1
          /\ obs[p]["accounts"].writes = 2
    /\ remote.accounts = <<A2, A1>>
    /\ RepoGetTransactionAccounts(redis, 7, FALSE) = Hit(<<A2, A1>>)

-----------------------------------------------------------------------------
(* Both fetches would fail. *)

\* C30: when the API is down, so that the accounts fetch and the categories
\* fetch would both fail, AddTransaction returns the error of the accounts
\* fetch, the first it meets, and does not start the categories fetch: at
\* most one of the two fetches has failed in a request, and no create call
\* is made or prepared.
C30_FirstErrorOnly ==
    \A p \in Procs :
        /\ ~(Failed(p, "accounts") /\ Failed(p, "categories"))
        /\ (~remote.up /\ Failed(p, "accounts")) =>
              /\ pc[p] = "done"
              /\ ret[p].type = "*fmt.wrapError"
              /\ ret[p].msg = "failed to get transaction accounts"
              /\ obs[p]["categories"] = NoObs
              /\ categories[p] = <<>>
              /\ call[p] = NoCall
              /\ posted[p] = <<>>

C30_Witness ==
    /\ ~remote.up
    /\ pc["r1"] = "done"
    /\ obs["r1"]["me"].ok
    /\ Failed("r1", "accounts")
    /\ obs["r1"]["accounts"].net = 1
    /\ RepoGetCategories(redis, user["r1"], FALSE).err
    /\ ret["r1"].msg = "failed to get transaction accounts"

-----------------------------------------------------------------------------
(* Malformed answers. *)

\* what the remote API holds for the read operation k
Truth(k) == IF k = "me" THEN remote.user ELSE Snapshot(k)

\* C31: a read operation whose HTTP call was answered 200 with a body that
\* does not decode fails with the wrapped error "unmarshal response", which
\* is no lookup error, and has written nothing to the cache; a read
\* operation that was answered 200 and returned data returns what the API
\* holds, never what a malformed body was taken for.
C31_MalformedBodyIsError ==
    /\ [](\A p \in Procs : \A k \in Kinds :
            /\ (Failed(p, k) /\ obs[p][k].status = StatusOK) =>
                  /\ pc[p] = "done"
                  /\ ret[p].type = "*fmt.wrapError"
                  /\ ret[p].msg = ReadMessage(k)
                  /\ ret[p].arg = "unmarshal response"
                  /\ ~IsLookupError(ret[p])
                  /\ obs[p][k].writes = 0
                  /\ ~obs[p][k].wfail
            /\ (obs[p][k].done /\ obs[p][k].ok /\ obs[p][k].net = 1) =>
                  obs[p][k].status = StatusOK /\ Returned(p, k) = Truth(k))
    /\ [][\A p \in Procs : \A k \in Kinds :
            (pc[p] = SendLabel(k) /\ obs'[p][k].done /\ ~obs'[p][k].ok) => redis' = redis]_vars

C31_Witness ==
    /\ pc["r1"] = "done"
    /\ Failed("r1", "accounts")
    /\ obs["r1"]["accounts"].status = StatusOK
    /\ ret["r1"].arg = "unmarshal response"
    /\ RepoGetTransactionAccounts(redis, user["r1"], FALSE).err

-----------------------------------------------------------------------------
(* The order of the steps of a request. *)

\* C32: in a request the user id is obtained before a collection fetch
\* starts; a cache write command for a collection is issued only after the
\* HTTP call of that collection was answered 200 and before the collection
\* is handed to the service; the create call is prepared and issued only
\* when the user, the accounts and the categories were obtained and both
\* the account and the category were found.
C32_PerRequestOrdering ==
    /\ [](\A p \in Procs :
            /\ \A k \in {"accounts", "categories"} :
                  /\ obs[p][k].started =>
                        obs[p]["me"].done /\ obs[p]["me"].ok /\ user[p] \in UserIDs
                  /\ (obs[p][k].writes >= 1 \/ obs[p][k].wfail) =>
                        obs[p][k].net = 1 /\ obs[p][k].status = StatusOK
            /\ (call[p] # NoCall \/ posted[p] # <<>>) =>
                  /\ \A k \in Kinds : obs[p][k].done /\ obs[p][k].ok
                  /\ AccountMatches(accounts[p], tx[p].Account) # {}
                  /\ CategoryMatches(categories[p], tx[p].Category) # {})
    /\ [][\A p \in Procs : \A k \in {"accounts", "categories"} :
            (obs'[p][k].writes > obs[p][k].writes \/ (obs'[p][k].wfail /\ ~obs[p][k].wfail)) =>
               /\ ~obs[p][k].done
               /\ Returned(p, k) = <<>>
               /\ obs[p][k].status = StatusOK]_vars

C32_Witness ==
    /\ pc["r1"] = "done"
    /\ Len(posted["r1"]) = 1
    /\ \A k \in Kinds : obs["r1"][k].net = 1 /\ obs["r1"][k].writes = 2
    /\ accounts["r1"] = <<A1, A2>>
    /\ ret["r1"] = NoError

-----------------------------------------------------------------------------
(* GetShortcutEntities. *)

\* C33: GetShortcutEntities returns an error and no result when GetMe, the
\* accounts fetch or the categories fetch failed, and the handler answers
\* 500; otherwise it returns the name and the currency of every fetched
\* account in fetch order and the titles of the fetched categories, each as
\* often as fetched, in non-decreasing order, and the handler answers 200.
C33_ShortcutEntitiesAllOrNothing ==
    \A p \in Procs :
        (op[p] = "GetShortcutEntities" /\ pc[p] = "done") =>
            IF \E k \in Kinds : Failed(p, k)
            THEN /\ ret[p].type = "*fmt.wrapError"
                 /\ \E k \in Kinds : Failed(p, k) /\ ret[p].msg = ReadMessage(k)
                 /\ result[p] = NoResult
                 /\ statusCode[p] = StatusInternalServerError
            ELSE /\ ret[p] = NoError
                 /\ statusCode[p] = StatusOK
                 /\ \A k \in Kinds : obs[p][k].done /\ obs[p][k].ok
                 /\ Len(result[p].Accounts) = Len(accounts[p])
                 /\ \A i \in DOMAIN accounts[p] :
                       /\ result[p].Accounts[i].Name = accounts[p][i].Name
                       /\ result[p].Accounts[i].Currency = accounts[p][i].CurrencyCode
                 /\ Len(result[p].Categories) = Len(categories[p])
                 /\ \A t \in {categories[p][i].Title : i \in DOMAIN categories[p]} :
                       Cardinality({i \in DOMAIN result[p].Categories : result[p].Categories[i] = t})
                          = Cardinality({i \in DOMAIN categories[p] : categories[p][i].Title = t})
                 /\ \A i, j \in DOMAIN result[p].Categories :
                       i < j => Rank(result[p].Categories[i]) <= Rank(result[p].Categories[j])

C33_Witness ==
    /\ pc["r1"] = "done"
    /\ op["r1"] = "GetShortcutEntities"
    /\ statusCode["r1"] = StatusOK
    /\ accounts["r1"] = <<A1, A3>>
    /\ result["r1"].Accounts[1].Name = "USD General"
    /\ result["r1"].Accounts[2].Currency = "EUR"
    /\ result["r1"].Categories = <<"Eating out", "Eating out", "Groceries">>

-----------------------------------------------------------------------------
(* The cost of a request on a warm cache. *)

\* the key the read operation k of request p reads
KeyOf(p, k) ==
    CASE k = "me" -> UserIDKey
      [] k = "accounts" -> AccountsKey(user[p])
      [] k = "categories" -> CategoriesKey(user[p])

\* C34: a read operation that finds its key in the cache, the store
\* answering, is a hit; a successful AddTransaction whose three reads were
\* hits has issued no HTTP call but the one create call and no cache write
\* command, and none of its steps changed the cache.
C34_WarmCacheCost ==
    /\ [](\A p \in Procs :
            (pc[p] = "done" /\ ret[p] = NoError /\ \A k \in Kinds : obs[p][k].hit) =>
               /\ \A k \in Kinds :
                     obs[p][k].net = 0 /\ obs[p][k].writes = 0 /\ ~obs[p][k].wfail
               /\ Len(posted[p]) = 1
               /\ CreateSucceeded(posted[p][1]))
    /\ [][\A p \in Procs :
            /\ \A k \in Kinds :
                  (/\ pc[p] = ReadLabel(k) /\ pc'[p] # pc[p]
                   /\ redis[KeyOf(p, k)].present
                   /\ obs'[p][k].why # "store") => obs'[p][k].hit /\ obs'[p][k].done
            /\ (pc'[p] # pc[p] /\ \A k \in Kinds : obs'[p][k].started => obs'[p][k].hit) =>
                  redis' = redis]_vars

C34_Witness ==
    /\ pc["r1"] = "done"
    /\ ret["r1"] = NoError
    /\ \A k \in Kinds : obs["r1"][k].hit /\ obs["r1"][k].rat = Tick
    /\ Len(posted["r1"]) = 1
    /\ statusCode["r1"] = StatusOK

-----------------------------------------------------------------------------
(* Where the values of the cache come from. *)

\* C35: whatever the interleaving of the requests, a key of the cache that
\* holds a value holds what the API answered with status 200: the user id,
\* or the single field data with the complete list of the accounts or of the
\* categories of that user; and a step changes the cache only as a write
\* command of a read operation whose HTTP call was answered 200, storing
\* what that answer decoded to.
C35_CacheProvenance ==
    /\ [](/\ redis[UserIDKey].present =>
                RepoGetUserID(redis, FALSE) = [err |-> FALSE, val |-> remote.user, why |-> "none"]
           /\ \A u \in UserIDs :
                /\ redis[AccountsKey(u)].present =>
                      /\ u = remote.user
                      /\ DOMAIN redis[AccountsKey(u)].val = {"data"}
                      /\ RepoGetTransactionAccounts(redis, u, FALSE) = Hit(remote.accounts)
                /\ redis[CategoriesKey(u)].present =>
                      /\ u = remote.user
                      /\ DOMAIN redis[CategoriesKey(u)].val = {"data"}
                      /\ RepoGetCategories(redis, u, FALSE) = Hit(remote.categories))
    /\ [][redis' # redis =>
            \E p \in Procs : \E k \in Kinds :
               /\ pc[p] \in {"SetUserID", "SetUserID_expire", "SetTransactionAccounts",
                              "SetTransactionAccounts_expire", "SetCategories",
                              "SetCategories_expire"}
               /\ pc'[p] # pc[p]
               /\ ~obs[p][k].done
               /\ obs[p][k].net = 1 /\ obs[p][k].status = StatusOK
               /\ fetched[p] = Truth(k)
               /\ \A j \in Keys \ {KeyOf(p, k)} : redis'[j] = redis[j]]_vars

C35_Witness ==
    /\ \A p \in Procs : pc[p] = "done" /\ obs[p]["categories"].writes = 2
    /\ remote.categories = <<K2, K1>>
    /\ redis[UserIDKey].present
    /\ RepoGetCategories(redis, 7, FALSE) = Hit(<<K2, K1>>)
    /\ RepoGetTransactionAccounts(redis, 7, FALSE) = Hit(<<A2, A1>>)

-----------------------------------------------------------------------------
(* Staleness. *)

\* C36: a key that holds an expiry holds one that lies ahead, at most
\* cacheTTL from now; a read of the cache leaves every expiry as the last
\* write set it; as long as the key of a collection is there, a read of it,
\* the store answering, returns the cached list without an HTTP call,
\* whatever the API holds by then, so that an account added since is not
\* found; once the key has expired the read goes on to the HTTP call, and
\* the list it fetches is the one the API holds then.
C36_StalenessBound ==
    /\ [](/\ \A k \in Keys :
                (redis[k].present /\ redis[k].exp.has) =>
                   now < redis[k].exp.at /\ redis[k].exp.at <= now + cacheTTL
           /\ \A p \in Procs :
                (/\ Resolved(p) /\ obs[p]["accounts"].hit
                 /\ AccountMatches(accounts[p], tx[p].Account) = {}) =>
                   IsLookupError(ret[p]) /\ posted[p] = <<>>)
    /\ [][\A p \in Procs :
            /\ \A k \in Kinds : (pc[p] = ReadLabel(k) /\ pc'[p] # pc[p]) => redis' = redis
            /\ (pc[p] = "GetTransactionAccounts" /\ pc'[p] # pc[p]) =>
                  IF redis[AccountsKey(user[p])].present
                  THEN obs'[p]["accounts"].why # "store" =>
                          /\ obs'[p]["accounts"].hit /\ obs'[p]["accounts"].net = 0
                          /\ accounts'[p] = RepoGetTransactionAccounts(redis, user[p], FALSE).val
                  ELSE pc'[p] = "GetTransactionAccounts_send"
            /\ (pc[p] = "GetCategories" /\ pc'[p] # pc[p]) =>
                  IF redis[CategoriesKey(user[p])].present
                  THEN obs'[p]["categories"].why # "store" =>
                          /\ obs'[p]["categories"].hit /\ obs'[p]["categories"].net = 0
                          /\ categories'[p] = RepoGetCategories(redis, user[p], FALSE).val
                  ELSE pc'[p] = "GetCategories_send"
            /\ (pc[p] = "GetTransactionAccounts_send" /\ pc'[p] = "SetTransactionAccounts") =>
                  fetched'[p] = remote.accounts
            /\ (\A q \in Procs :
                   pc'[q] = pc[q] \/ pc[q] \notin {"SetUserID", "SetUserID_expire",
                                                  "SetTransactionAccounts_expire",
                                                  "SetCategories_expire"}) =>
                  \A k \in Keys :
                     (redis'[k].present /\ redis[k].present) => redis'[k].exp = redis[k].exp]_vars

C36_Witness ==
    /\ pc["r1"] = "done"
    /\ obs["r1"]["accounts"].hit
    /\ accounts["r1"] = <<A1>>
    /\ remote.accounts = <<A1, A3>>
    /\ tx["r1"].Account = "EUR General"
    /\ IsLookupError(ret["r1"])
    /\ now = Tick

-----------------------------------------------------------------------------
(* Which lookup error. *)

\* C37: when neither the account name nor the category title of the
\* request is found in the fetched lists, the lookup error returned is the
\* one of the account and names the account; the lookup error of the
\* category is returned only when the account was found and the category
\* was not.
C37_AccountLookupFirst ==
    \A p \in Procs :
        (Resolved(p) /\ pc[p] = "done") =>
            /\ (/\ AccountMatches(accounts[p], tx[p].Account) = {}
                /\ CategoryMatches(categories[p], tx[p].Category) = {}) =>
                  /\ IsLookupError(ret[p])
                  /\ ret[p].msg = "no transaction account found with name"
                  /\ ret[p].arg = tx[p].Account
            /\ ret[p].msg = "no category found with title" =>
                  /\ IsLookupError(ret[p])
                  /\ AccountMatches(accounts[p], tx[p].Account) # {}
                  /\ CategoryMatches(categories[p], tx[p].Category) = {}
                  /\ ret[p].arg = tx[p].Category

C37_Witness ==
    /\ pc["r1"] = "done"
    /\ accounts["r1"] = <<A1>> /\ categories["r1"] = <<K1>>
    /\ tx["r1"].Account = "EUR General" /\ tx["r1"].Category = "Eating out"
    /\ ret["r1"].msg = "no transaction account found with name"
    /\ ret["r1"].arg = "EUR General"

-----------------------------------------------------------------------------
(* One answer for every request. *)

\* the statuses the handler answers with
Statuses ==
    {StatusOK, StatusBadRequest, StatusForbidden, StatusNotFound, StatusMethodNotAllowed,
     StatusUnprocessableEntity, StatusInternalServerError}

====
